---- MODULE Spec2Model ----
(***************************************************************************)
(* A model of the style-profile extraction engine (scripts/extract_style). *)
(*                                                                         *)
(* A text is a sequence of characters (one-character strings; an emoji is  *)
(* written by its code point, "U+1F600").  A date is the ISO string of a   *)
(* message: either a parseable instant, kept as seconds, or a string that  *)
(* datetime.fromisoformat rejects.  A ratio the code computes in floating  *)
(* point is kept exactly, as a fraction [num, den]; a value the code       *)
(* reports through round(x, d) is kept as the integer round(x, d) * 10^d.  *)
(***************************************************************************)
EXTENDS Integers, Sequences, FiniteSets, TLC

VARIABLES
    \* extract_style.main
    all_chats,           \* conversations.json: the chats in the order of the file
    chat_index,          \* the chat the for loop of main takes next
    files,               \* STYLES_DIR: file name -> the profile written to it
    profiles_generated,  \* local of main (line 304)
    \* analyze_style
    messages,            \* its argument: the corpus, both parties
    pc,                  \* the block of the running function that runs next
    capitalization,      \* local (lines 53-58)
    all_emojis,          \* local (line 76)
    all_tokens,          \* local (line 83)
    used_slang,          \* local (line 109)
    top_bigrams,         \* local (line 118)
    vocabulary_richness, \* local (line 122)
    greeting_patterns,   \* local (line 141)
    farewell_patterns,   \* local (line 145)
    consecutive_bursts,  \* local (line 148)
    burst_lengths,       \* local (line 149)
    total_responses,     \* local (line 164)
    response_times,      \* local (line 170)
    hours,               \* local (line 186)
    topic_scores,        \* local (line 207)
    profile,             \* what analyze_style returned
    previous,            \* what an earlier run on the same corpus returned
    \* extract_history
    conversations,       \* what split_into_conversations returned
    \* generate_embeddings
    all_chunks,          \* main's local (line 95)
    chunk_index,         \* i of main's embedding loop (line 125)
    attempt,             \* embed_text's loop variable (line 67)
    embedding,           \* what embed_text returned (line 126)
    total_embedded,      \* main's local (line 96)
    service              \* the calls of embed_content and of time.sleep so far

mainvars == <<all_chats, chat_index, files, profiles_generated>>
lexical == <<capitalization, all_emojis>>
vocabulary == <<all_tokens, used_slang, top_bigrams, vocabulary_richness,
                greeting_patterns, farewell_patterns>>
timing == <<consecutive_bursts, burst_lengths, total_responses, response_times,
            hours>>
embedder == <<all_chunks, chunk_index, attempt, embedding, total_embedded, service>>
vars == <<mainvars, messages, pc, lexical, vocabulary, timing, topic_scores,
          profile, previous, conversations, embedder>>

(***************************************************************************)
(* Bounds of the model.                                                    *)
(***************************************************************************)
\* Longest freely chosen run of messages at the head of a corpus whose
\* messages vary in author.
MaxAuthors == 6
\* Longest freely chosen run of messages at the head of a corpus whose
\* messages vary in author and in date.
MaxTimed == 2
\* Most subject messages of a corpus whose messages vary in text.
MaxSubject == 25
\* Most occurrences of one topic's keyword in a corpus.
MaxKeywordCount == 6
\* Most repetitions of a phrase in a corpus that is analysed twice.
MaxPhrase == 3
\* Most repetitions of a text in a corpus whose messages vary in their
\* bigrams and emoji.
MaxRepeats == 3
\* Most chats in conversations.json.
MaxChats == 2
\* Most chunks the embedding loop goes through.
MaxChunks == 2
\* Most messages of a chat that is split into conversations.
MaxMessages == 4

(***************************************************************************)
(* Program constants.                                                      *)
(***************************************************************************)
MinSubjectMessages == 20
MinChatMessages == 50
MinutesPerDay == 1440
SecondsPerMinute == 60
SecondsPerHour == 3600
HoursPerDay == 24

(***************************************************************************)
(* Arithmetic on exact fractions.                                          *)
(***************************************************************************)
Max(a, b) == IF a >= b THEN a ELSE b

Frac(n, d) == [num |-> n, den |-> d]

\* a < b, for fractions with positive denominators
FracLess(a, b) == a.num * b.den < b.num * a.den

FracEq(a, b) == a.num * b.den = b.num * a.den

\* min(x, 1.0)
MinOne(x) == IF FracLess(Frac(1, 1), x) THEN Frac(1, 1) ELSE x

RECURSIVE Pow10(_)
Pow10(d) == IF d = 0 THEN 1 ELSE 10 * Pow10(d - 1)

\* round(x, digits) * 10^digits.  Python rounds the float to the nearest
\* multiple of 10^-digits and an exact tie to the even one; a fraction that is
\* a tie is exactly a float only when its denominator is a power of two, and
\* the corpora of this model are too short to produce any other tie.
Round(x, digits) ==
    LET scaled == x.num * Pow10(digits)
        fl == scaled \div x.den
        rem == scaled % x.den
    IN  IF 2 * rem < x.den THEN fl
        ELSE IF 2 * rem > x.den THEN fl + 1
        ELSE IF fl % 2 = 0 THEN fl ELSE fl + 1

(***************************************************************************)
(* Characters and strings.                                                 *)
(***************************************************************************)
LowerLetters ==
    <<"a", "b", "c", "d", "e", "f", "g", "h", "i", "j", "k", "l", "m", "n",
      "o", "p", "q", "r", "s", "t", "u", "v", "w", "x", "y", "z">>
UpperLetters ==
    <<"A", "B", "C", "D", "E", "F", "G", "H", "I", "J", "K", "L", "M", "N",
      "O", "P", "Q", "R", "S", "T", "U", "V", "W", "X", "Y", "Z">>
Digits == <<"0", "1", "2", "3", "4", "5", "6", "7", "8", "9">>
\* three characters of the ranges of emoji_pattern (lines 69-75)
EmojiChars == {"U+2764", "U+1F600", "U+1F602"}

\* the characters of the model in code point order (what sorted() compares)
CodePointOrder ==
    <<" ", "!", "+", ";">> \o Digits \o UpperLetters \o <<"_">> \o LowerLetters
    \o <<"U+2764", "U+1F600", "U+1F602">>

Range(s) == {s[k] : k \in 1..Len(s)}
IndexIn(s, c) == CHOOSE k \in 1..Len(s) : s[k] = c
Ord(c) == IndexIn(CodePointOrder, c)

\* c.islower(), c.isupper(), c.isalpha(), c.isspace() of one character
IsLower(c) == c \in Range(LowerLetters)
IsUpper(c) == c \in Range(UpperLetters)
IsAlpha(c) == IsLower(c) \/ IsUpper(c)
IsDigit(c) == c \in Range(Digits)
IsSpace(c) == c = " "

\* c.lower()
LowerChar(c) == IF IsUpper(c) THEN LowerLetters[IndexIn(UpperLetters, c)] ELSE c
\* t.lower()
Lower(t) == [k \in 1..Len(t) |-> LowerChar(t[k])]

\* tok.isalpha(): not empty and every character a letter
IsAlphaStr(tok) == tok # <<>> /\ \A k \in 1..Len(tok) : IsAlpha(tok[k])

\* t.startswith(g), t.endswith(g), c in t
StartsWith(t, g) == Len(g) <= Len(t) /\ SubSeq(t, 1, Len(g)) = g
EndsWith(t, g) == Len(g) <= Len(t) /\ SubSeq(t, Len(t) - Len(g) + 1, Len(t)) = g
\* the positions of s where k occurs
Matches(s, k) ==
    {i \in 1..(Len(s) - Len(k) + 1) : s[i] = k[1] /\ SubSeq(s, i, i + Len(k) - 1) = k}

\* the occurrences among P, each n long, that do not overlap, found left to
\* right from position i
RECURSIVE CountFrom(_, _, _)
CountFrom(P, n, i) ==
    LET ahead == {p \in P : p >= i}
    IN  IF ahead = {} THEN 0
        ELSE 1 + CountFrom(P, n, (CHOOSE p \in ahead : \A q \in ahead : p <= q) + n)

\* s.count(k), counting from position i
CountSub(s, k, i) == CountFrom(Matches(s, k), Len(k), i)
Contains(t, g) == CountSub(t, g, 1) > 0

\* a < b as Python compares two strings
RECURSIVE StrLess(_, _)
StrLess(a, b) ==
    IF b = <<>> THEN FALSE
    ELSE IF a = <<>> THEN TRUE
    ELSE IF a[1] = b[1] THEN StrLess(SubSeq(a, 2, Len(a)), SubSeq(b, 2, Len(b)))
    ELSE Ord(a[1]) < Ord(b[1])

\* sep.join(parts)
RECURSIVE Join(_, _)
Join(sep, parts) ==
    IF parts = <<>> THEN <<>>
    ELSE IF Len(parts) = 1 THEN parts[1]
    ELSE LET half == Len(parts) \div 2
         IN  Join(sep, SubSeq(parts, 1, half)) \o sep
             \o Join(sep, SubSeq(parts, half + 1, Len(parts)))

(***************************************************************************)
(* Lists: sum, sorted, Counter.                                            *)
(***************************************************************************)
\* sum(s)
RECURSIVE Sum(_)
Sum(s) ==
    IF s = <<>> THEN 0
    ELSE IF Len(s) = 1 THEN s[1]
    ELSE LET half == Len(s) \div 2
         IN  Sum(SubSeq(s, 1, half)) + Sum(SubSeq(s, half + 1, Len(s)))

\* the lists of ss, one after the other: what a loop that extends a list with
\* ss[1], ss[2], ... builds
RECURSIVE Flatten(_)
Flatten(ss) ==
    IF ss = <<>> THEN <<>>
    ELSE IF Len(ss) = 1 THEN ss[1]
    ELSE LET half == Len(ss) \div 2
         IN  Flatten(SubSeq(ss, 1, half)) \o Flatten(SubSeq(ss, half + 1, Len(ss)))

\* s[:n]
Take(s, n) == SubSeq(s, 1, IF n < Len(s) THEN n ELSE Len(s))

\* the number of k with s[k] = x
Count(s, x) == Cardinality({k \in 1..Len(s) : s[k] = x})

\* sorted(s, key=...): ascending in key; stable, as Python's sort is, so that
\* an element comes after those of a smaller key and those of its own key
\* that were before it
SortedByKey(s, key) ==
    LET ahead(i) == {j \in 1..Len(s) :
                        key[s[j]] < key[s[i]] \/ (key[s[j]] = key[s[i]] /\ j < i)}
    IN  [p \in 1..Len(s) |-> s[CHOOSE i \in 1..Len(s) : Cardinality(ahead(i)) = p - 1]]

\* sorted(s) of a list of integers, and of a list of strings
SortedInts(s) == SortedByKey(s, [x \in Range(s) |-> x])
SortedStrs(s) ==
    SortedByKey(s, [x \in Range(s) |-> Cardinality({y \in Range(s) : StrLess(y, x)})])

\* the keys of Counter(s): the distinct elements in order of first occurrence
Keys(s) ==
    LET firsts == {i \in 1..Len(s) : \A j \in 1..(i - 1) : s[j] # s[i]}
    IN  [p \in 1..Cardinality(firsts) |->
            s[CHOOSE i \in firsts : Cardinality({j \in firsts : j < i}) = p - 1]]

\* Counter(s).most_common(n): (element, count) by descending count, elements
\* of equal count in order of first occurrence
MostCommon(s, n) ==
    LET ranked == SortedByKey(Keys(s), [x \in Range(s) |-> 0 - Count(s, x)])
    IN  [k \in 1..(IF n < Len(ranked) THEN n ELSE Len(ranked)) |->
            [elem |-> ranked[k], count |-> Count(s, ranked[k])]]

\* the orders in which a set can be iterated
Orderings(S) ==
    {s \in [1..Cardinality(S) -> S] : \A x \in S : \E k \in 1..Cardinality(S) : s[k] = x}

(***************************************************************************)
(* Tokenization.  word_tokenize and sent_tokenize are NLTK's; on the texts *)
(* of this model (letters, digits, emoji, single spaces, and "!" only at   *)
(* the end of a text) word_tokenize splits at spaces and makes every "!" a *)
(* token of its own, and sent_tokenize returns the text as one sentence.   *)
(***************************************************************************)
\* the tokens of t from position i on: spaces are skipped, a "!" is a token,
\* and any other character starts a token that runs up to the next space or
\* "!" or the end of the text
RECURSIVE Pieces(_, _)
Pieces(t, i) ==
    IF i > Len(t) THEN <<>>
    ELSE IF IsSpace(t[i]) THEN Pieces(t, i + 1)
    ELSE IF t[i] = "!" THEN <<(<<"!">>)>> \o Pieces(t, i + 1)
    ELSE LET stop == CHOOSE e \in i..Len(t) :
                        /\ \A k \in i..e : ~IsSpace(t[k]) /\ t[k] # "!"
                        /\ (e = Len(t) \/ IsSpace(t[e + 1]) \/ t[e + 1] = "!")
         IN  <<SubSeq(t, i, stop)>> \o Pieces(t, stop + 1)

word_tokenize(t) == Pieces(t, 1)
sent_tokenize(t) == <<t>>

\* [tok for tok in word_tokenize(t.lower()) if tok.isalpha()]
WordTokens(t) == SelectSeq(word_tokenize(Lower(t)), IsAlphaStr)

\* all_tokens (lines 83-88), over the texts from index k
AllTokens(texts, k) ==
    Flatten([j \in 1..(Len(texts) - k + 1) |-> WordTokens(texts[j + k - 1])])

(***************************************************************************)
(* Messages.                                                               *)
(***************************************************************************)
\* A date string that parses, as seconds since the midnight before the corpus
\* starts, and one that does not.
GoodDate(t) == [valid |-> TRUE, t |-> t]
BadDate == [valid |-> FALSE, t |-> 0]

Msg(me, text, date) == [is_from_me |-> me, text |-> text, date |-> date]

\* datetime.fromisoformat(date): the instant, or ValueError / TypeError
FromIsoFormat(date) ==
    IF date.valid THEN [raised |-> FALSE, t |-> date.t]
    ELSE [raised |-> TRUE, t |-> 0]

\* [m for m in messages if m["is_from_me"] and m.get("text")]
MyMessages(msgs) == SelectSeq(msgs, LAMBDA m: m.is_from_me /\ m.text # <<>>)

(***************************************************************************)
(* Lexical and punctuation analysis (lines 46-80).                         *)
(***************************************************************************)
\* texts = [m["text"] for m in my_messages]
Texts(msgs) ==
    LET my_messages == MyMessages(msgs)
    IN  [k \in 1..Len(my_messages) |-> my_messages[k].text]

\* sum(1 for t in texts if P(t))
CountTexts(texts, P(_)) == Cardinality({k \in 1..Len(texts) : P(texts[k])})


\* count / total > 0.8.  The quotient of two small integers and the literal
\* 0.8 are both correctly rounded, so the floats compare as the fractions do.
Above80AtLeast(count, total) == 5 * count >= 4 * total
Above80(count, total) == 5 * count > 4 * total

\* lines 49-58
Capitalization(texts) ==
    LET starts_lower == CountTexts(texts, LAMBDA t: t # <<>> /\ IsLower(t[1]))
        starts_upper == CountTexts(texts, LAMBDA t: t # <<>> /\ IsUpper(t[1]))
        total == Len(texts)
    IN  IF Above80(starts_lower, total) THEN "never"
        ELSE IF Above80(starts_upper, total) THEN "always"
        ELSE "mixed"

\* lines 61-66: the fraction of the texts with each punctuation habit
Punctuation(texts) ==
    LET share(P(_)) == Frac(CountTexts(texts, P), Len(texts))
    IN  [uses_periods |-> share(LAMBDA t: EndsWith(t, <<".">>)),
         uses_exclamation |-> share(LAMBDA t: Contains(t, <<"!">>)),
         uses_question |-> share(LAMBDA t: Contains(t, <<"?">>)),
         uses_ellipsis |-> share(LAMBDA t: Contains(t, <<".", ".", ".">>)),
         uses_commas |-> share(LAMBDA t: Contains(t, <<",">>)),
         uses_apostrophes |-> share(LAMBDA t: Contains(t, <<"'">>))]

\* lines 215-223
freq_label(ratio) ==
    IF FracLess(ratio, Frac(5, 100)) THEN "rarely"
    ELSE IF FracLess(ratio, Frac(2, 10)) THEN "sometimes"
    ELSE IF FracLess(ratio, Frac(5, 10)) THEN "often"
    ELSE "frequently"

\* emoji_pattern.findall(t): the maximal runs of emoji characters of t, left
\* to right
findall(t) ==
    LET starts == {i \in 1..Len(t) :
                      t[i] \in EmojiChars /\ (i = 1 \/ t[i - 1] \notin EmojiChars)}
        stop(i) == CHOOSE e \in i..Len(t) :
                      /\ \A k \in i..e : t[k] \in EmojiChars
                      /\ (e = Len(t) \/ t[e + 1] \notin EmojiChars)
    IN  [p \in 1..Cardinality(starts) |->
            LET i == CHOOSE x \in starts : Cardinality({y \in starts : y < x}) = p - 1
            IN  SubSeq(t, i, stop(i))]

\* emoji_pattern.fullmatch(t)
fullmatch(t) == t # <<>> /\ \A k \in 1..Len(t) : t[k] \in EmojiChars

\* lines 76-78
AllEmojis(texts, k) ==
    Flatten([j \in 1..(Len(texts) - k + 1) |-> findall(texts[j + k - 1])])

\* line 79
EmojiFreq(emojis, total) ==
    IF total > 0 THEN Frac(Len(emojis), total) ELSE Frac(0, 1)
\* line 80
TopEmojis(emojis) ==
    LET top == MostCommon(emojis, 5) IN [k \in 1..Len(top) |-> top[k].elem]

(***************************************************************************)
(* Vocabulary (lines 101-122, 139-145).                                    *)
(***************************************************************************)
slang_words ==
    {<<"l", "m", "a", "o">>, <<"l", "o", "l">>, <<"b", "r", "u", "h">>,
     <<"b", "r", "o">>, <<"b", "e", "t">>, <<"n", "a", "h">>, <<"f", "r">>,
     <<"n", "g", "l">>, <<"t", "b", "h">>, <<"l", "o", "w", "k", "e", "y">>,
     <<"h", "i", "g", "h", "k", "e", "y">>, <<"i", "m", "o">>,
     <<"i", "d", "k">>, <<"i", "d", "c">>, <<"s", "m", "h">>,
     <<"w", "y", "a">>, <<"w", "y", "d">>, <<"o", "m", "g">>, <<"a", "f">>,
     <<"r", "n">>, <<"f", "a", "m">>, <<"g", "o", "a", "t", "e", "d">>,
     <<"c", "o", "o", "k", "e", "d">>, <<"b", "u", "s", "s", "i", "n">>,
     <<"c", "a", "p">>, <<"s", "l", "a", "y">>, <<"v", "i", "b", "e">>,
     <<"l", "i", "t">>, <<"s", "u", "s">>,
     <<"d", "e", "a", "d", "a", "s", "s">>, <<"h", "e", "l", "l", "a">>,
     <<"f", "i", "n", "n", "a">>, <<"y", "a", "l", "l">>,
     <<"a", "i", "g", "h", "t">>, <<"y", "o">>, <<"o", "n", "g">>,
     <<"t", "s">>, <<"s", "h", "i">>, <<"d", "a", "w", "g">>}

\* the slang words the subject used at least three times (line 109), as a set:
\* the list used_slang holds them in the order the set slang_words iterates
UsedSlang(tokens) == {w \in slang_words : Count(tokens, w) >= 3}

\* line 110
SlangLevel(used) ==
    IF Len(used) > 5 THEN "high" ELSE IF Len(used) > 2 THEN "medium" ELSE "low"

\* analyze_style's parameter stop_words: main passes NLTK's English list, of
\* which the model keeps the words its texts use
stop_words ==
    {<<"i">>, <<"a">>, <<"t", "h", "e">>, <<"i", "s">>, <<"t", "o">>,
     <<"s", "o">>}

\* nltk_ngrams(content_tokens, 2), each joined by a space
Bigrams(content_tokens) ==
    [k \in 1..(IF Len(content_tokens) > 1 THEN Len(content_tokens) - 1 ELSE 0) |->
        content_tokens[k] \o <<" ">> \o content_tokens[k + 1]]

\* lines 115-117 for one text
TextBigrams(t) ==
    LET alpha == SelectSeq(word_tokenize(t), IsAlphaStr)
        tokens == [k \in 1..Len(alpha) |-> Lower(alpha[k])]
        content_tokens == SelectSeq(tokens, LAMBDA tok: tok \notin stop_words)
    IN  Bigrams(content_tokens)

FilteredBigrams(texts, k) ==
    Flatten([j \in 1..(Len(texts) - k + 1) |-> TextBigrams(texts[j + k - 1])])

\* line 118
TopBigrams(texts) ==
    LET top == SelectSeq(MostCommon(FilteredBigrams(texts, 1), 10),
                         LAMBDA e: e.count >= 3)
    IN  [k \in 1..Len(top) |-> top[k].elem]

\* lines 121-122
VocabularyRichnessOverDistinct(tokens) ==
    IF tokens # <<>>
    THEN Frac(Cardinality(Range(tokens)), Cardinality(Range(tokens)))
    ELSE Frac(0, 1)
VocabularyRichness(tokens) ==
    IF tokens # <<>> THEN Frac(Cardinality(Range(tokens)), Len(tokens))
    ELSE Frac(0, 1)

\* round(vocabulary_richness, 3), in thousandths (line 255)
ReportedRichness(richness) == Round(richness, 3)

greetings ==
    {<<"h", "e", "y">>, <<"h", "i">>, <<"h", "e", "l", "l", "o">>,
     <<"y", "o">>, <<"s", "u", "p">>,
     <<"w", "h", "a", "t", "s", " ", "u", "p">>, <<"h", "e", "y", "y">>,
     <<"h", "e", "y", "y", "y">>, <<"h", "i", "i">>, <<"y", "o", "o">>,
     <<"a", "y", "y">>}

\* line 141, as a set
GreetingsUsed(texts) ==
    {g \in greetings : \E k \in 1..Len(texts) : StartsWith(Lower(texts[k]), g)}

farewells ==
    {<<"b", "y", "e">>, <<"c", "y", "a">>, <<"l", "a", "t", "e", "r">>,
     <<"p", "e", "a", "c", "e">>, <<"g", "n">>,
     <<"g", "o", "o", "d", "n", "i", "g", "h", "t">>,
     <<"n", "i", "g", "h", "t">>, <<"b", "e", "t">>,
     <<"a", "i", "g", "h", "t">>, <<"t", "t", "y", "l">>}

\* line 145, as a set
FarewellsUsed(tokens) == {f \in farewells : Count(tokens, f) >= 2}

filler_list ==
    <<<<"l", "i", "k", "e">>, <<"j", "u", "s", "t">>,
     <<"a", "c", "t", "u", "a", "l", "l", "y">>,
     <<"l", "i", "t", "e", "r", "a", "l", "l", "y">>,
     <<"b", "a", "s", "i", "c", "a", "l", "l", "y">>, <<"n", "g", "l">>,
     <<"t", "b", "h">>, <<"l", "o", "w", "k", "e", "y">>>>

\* line 254
FillerWords(tokens) == SelectSeq(filler_list, LAMBDA w: Count(tokens, w) >= 5)

\* line 251
TopPhrasesUnsorted(used, bigrams) == Take(used, 10) \o Take(bigrams, 5)
TopPhrases(used, bigrams) == Take(SortedStrs(used), 10) \o Take(bigrams, 5)

(***************************************************************************)
(* Sentiment (lines 124-137).  sia is analyze_style's parameter; the model *)
(* passes a scorer that knows two words.                                   *)
(***************************************************************************)
\* sia.polarity_scores(t)["compound"]
Compound(t) ==
    IF <<"l", "o", "v", "e">> \in Range(WordTokens(t)) THEN Frac(1, 2)
    ELSE IF <<"h", "a", "t", "e">> \in Range(WordTokens(t)) THEN Frac(0 - 1, 2)
    ELSE Frac(0, 1)

\* the compounds are halves: their sum, in halves
Sentiment(texts) ==
    LET halves == [k \in 1..Len(texts) |-> Compound(texts[k]).num * (2 \div Compound(texts[k]).den)]
        n == Len(texts)
        avg_compound == IF n > 0 THEN Frac(Sum(halves), 2 * n) ELSE Frac(0, 1)
        pos_ratio == IF n > 0
                     THEN Frac(Cardinality({k \in 1..n : FracLess(Frac(5, 100), Compound(texts[k]))}), n)
                     ELSE Frac(0, 1)
        neg_ratio == IF n > 0
                     THEN Frac(Cardinality({k \in 1..n : FracLess(Compound(texts[k]), Frac(0 - 5, 100))}), n)
                     ELSE Frac(0, 1)
        tone_label ==
            IF FracLess(Frac(15, 100), avg_compound) THEN "positive"
            ELSE IF FracLess(avg_compound, Frac(0 - 15, 100)) THEN "negative"
            ELSE IF FracLess(Frac(4, 10), pos_ratio) /\ FracLess(Frac(2, 10), neg_ratio)
                 THEN "mixed"
            ELSE "neutral"
    IN  [avg_compound |-> avg_compound, tone_label |-> tone_label,
         positivity_ratio |-> pos_ratio, negativity_ratio |-> neg_ratio]

(***************************************************************************)
(* Topic detection (lines 196-213).                                        *)
(***************************************************************************)
\* topic_keywords, in the order the dict literal declares its topics
topic_keywords ==
    <<[topic |-> "food",
       keywords |->
         <<<<"f", "o", "o", "d">>, <<"e", "a", "t">>,
           <<"d", "i", "n", "n", "e", "r">>, <<"l", "u", "n", "c", "h">>,
           <<"h", "u", "n", "g", "r", "y">>,
           <<"r", "e", "s", "t", "a", "u", "r", "a", "n", "t">>,
           <<"p", "i", "z", "z", "a">>, <<"s", "u", "s", "h", "i">>,
           <<"r", "a", "m", "e", "n">>>>],
      [topic |-> "gaming",
       keywords |->
         <<<<"g", "a", "m", "e">>, <<"p", "l", "a", "y">>,
           <<"g", "a", "m", "i", "n", "g">>, <<"x", "b", "o", "x">>,
           <<"p", "s", "5">>, <<"p", "c">>,
           <<"v", "a", "l", "o", "r", "a", "n", "t">>,
           <<"l", "e", "a", "g", "u", "e">>,
           <<"f", "o", "r", "t", "n", "i", "t", "e">>>>],
      [topic |-> "school",
       keywords |->
         <<<<"c", "l", "a", "s", "s">>, <<"e", "x", "a", "m">>,
           <<"m", "i", "d", "t", "e", "r", "m">>, <<"f", "i", "n", "a", "l">>,
           <<"h", "o", "m", "e", "w", "o", "r", "k">>, <<"p", "r", "o", "f">>,
           <<"l", "e", "c", "t", "u", "r", "e">>, <<"s", "t", "u", "d", "y">>>>],
      [topic |-> "sports",
       keywords |->
         <<<<"g", "a", "m", "e">>, <<"g", "o", "a", "l">>,
           <<"s", "c", "o", "r", "e">>, <<"t", "e", "a", "m">>,
           <<"p", "l", "a", "y">>, <<"w", "i", "n">>, <<"l", "o", "s", "t">>,
           <<"s", "e", "a", "s", "o", "n">>>>],
      [topic |-> "music",
       keywords |->
         <<<<"s", "o", "n", "g">>, <<"a", "l", "b", "u", "m">>,
           <<"p", "l", "a", "y", "l", "i", "s", "t">>,
           <<"l", "i", "s", "t", "e", "n">>, <<"c", "o", "n", "c", "e", "r", "t">>,
           <<"s", "p", "o", "t", "i", "f", "y">>>>],
      [topic |-> "movies",
       keywords |->
         <<<<"m", "o", "v", "i", "e">>, <<"f", "i", "l", "m">>,
           <<"w", "a", "t", "c", "h">>, <<"n", "e", "t", "f", "l", "i", "x">>,
           <<"s", "h", "o", "w">>, <<"s", "e", "r", "i", "e", "s">>,
           <<"e", "p", "i", "s", "o", "d", "e">>>>],
      [topic |-> "travel",
       keywords |->
         <<<<"t", "r", "i", "p">>, <<"t", "r", "a", "v", "e", "l">>,
           <<"f", "l", "i", "g", "h", "t">>, <<"h", "o", "t", "e", "l">>,
           <<"v", "a", "c", "a", "t", "i", "o", "n">>,
           <<"a", "i", "r", "p", "o", "r", "t">>>>],
      [topic |-> "work",
       keywords |->
         <<<<"w", "o", "r", "k">>, <<"j", "o", "b">>,
           <<"m", "e", "e", "t", "i", "n", "g">>, <<"b", "o", "s", "s">>,
           <<"o", "f", "f", "i", "c", "e">>,
           <<"d", "e", "a", "d", "l", "i", "n", "e">>>>]>>

MinTopicScore == 5
MaxCommonTopics == 5

\* line 208
AllText(texts) == Lower(Join(<<" ">>, texts))

\* line 210
TopicScore(all_text, keywords) ==
    Sum([k \in 1..Len(keywords) |-> CountSub(all_text, keywords[k], 1)])

\* line 211
QualifiesAbove(score) == score > MinTopicScore
Qualifies(score) == score >= MinTopicScore

\* lines 207-212: topic_scores, a dict, as its items in insertion order
TopicScores(texts) ==
    LET all_text == AllText(texts)
        scored == [k \in 1..Len(topic_keywords) |->
                     [topic |-> topic_keywords[k].topic,
                      score |-> TopicScore(all_text, topic_keywords[k].keywords)]]
    IN  SelectSeq(scored, LAMBDA e: Qualifies(e.score))

\* line 213: sorted(topic_scores.items(), key=lambda x: -x[1])[:5]
CommonTopics(scores) ==
    LET top == Take(SortedByKey(scores, [e \in Range(scores) |-> 0 - e.score]),
                    MaxCommonTopics)
    IN  [k \in 1..Len(top) |-> top[k].topic]

(***************************************************************************)
(* Multi-message tendency: the forward burst scan.                         *)
(***************************************************************************)
\* the inner while loop: the first index at or after i that is not the
\* subject's, or Len + 1
\* the inner while loop: the first index from i on that is past the end or
\* not a subject message
BurstEnd(all_msgs, i) ==
    CHOOSE e \in i..(Len(all_msgs) + 1) :
        /\ \A k \in i..(e - 1) : all_msgs[k].is_from_me
        /\ (e > Len(all_msgs) \/ ~all_msgs[e].is_from_me)

\* the test that makes a run a burst
CountsAsBurstLoose(burst_len) == burst_len >= 1
CountsAsBurst(burst_len) == burst_len > 1

\* one iteration of the outer while loop, on the loop's variables
ScanStep(all_msgs, st) ==
    IF all_msgs[st.i].is_from_me
    THEN LET e == BurstEnd(all_msgs, st.i)
             burst_len == e - st.i
         IN  IF CountsAsBurst(burst_len)
             THEN [i |-> e, consecutive_bursts |-> st.consecutive_bursts + 1,
                   burst_lengths |-> Append(st.burst_lengths, burst_len)]
             ELSE [st EXCEPT !.i = e]
    ELSE [st EXCEPT !.i = st.i + 1]

\* up to n iterations of the outer while loop: the first half of them, then
\* the rest
RECURSIVE ScanLoop(_, _, _)
ScanLoop(all_msgs, st, n) ==
    IF st.i > Len(all_msgs) \/ n = 0 THEN st
    ELSE IF n = 1 THEN ScanStep(all_msgs, st)
    ELSE ScanLoop(all_msgs, ScanLoop(all_msgs, st, n \div 2), n - (n \div 2))

\* the outer while loop, from index i with the counters so far; an iteration
\* moves i forward, so the loop ends within len(all_msgs) iterations
ScanBursts(all_msgs, i, bursts, lens) ==
    LET st == ScanLoop(all_msgs,
                       [i |-> i, consecutive_bursts |-> bursts, burst_lengths |-> lens],
                       Len(all_msgs))
    IN  [consecutive_bursts |-> st.consecutive_bursts,
         burst_lengths |-> st.burst_lengths]

\* the positions j at which a subject message follows an other-party message
ResponsePositions(all_msgs) ==
    {j \in 2..Len(all_msgs) :
        all_msgs[j].is_from_me /\ ~all_msgs[j - 1].is_from_me}

TotalResponses(all_msgs) == Max(1, Cardinality(ResponsePositions(all_msgs)))

\* consecutive_bursts / total_responses if total_responses > 0 else 0.3
MultiMsgTendency(bursts, responses) ==
    IF responses > 0 THEN Frac(bursts, responses) ELSE Frac(3, 10)

\* round(min(multi_msg_tendency, 1.0), 2), in hundredths
ReportedTendencyUnclamped(tendency) == Round(tendency, 2)
ReportedTendency(tendency) == Round(MinOne(tendency), 2)

(***************************************************************************)
(* Response times.                                                         *)
(***************************************************************************)
\* the window test on diff_minutes
InWindowClosed(diff_minutes) ==
    /\ ~FracLess(diff_minutes, Frac(0, 1))
    /\ ~FracLess(Frac(MinutesPerDay, 1), diff_minutes)
InWindow(diff_minutes) ==
    /\ FracLess(Frac(0, 1), diff_minutes)
    /\ FracLess(diff_minutes, Frac(MinutesPerDay, 1))

\* the body of the for loop at position j: what it appends, and whether an
\* exception left the try statement uncaught
PairSample(all_msgs, j) ==
    IF all_msgs[j].is_from_me /\ ~all_msgs[j - 1].is_from_me
    THEN LET t1 == FromIsoFormat(all_msgs[j - 1].date)
             t2 == FromIsoFormat(all_msgs[j].date)
             diff_minutes == Frac(t2.t - t1.t, SecondsPerMinute)
         IN  IF t1.raised \/ t2.raised
             THEN [raised |-> FALSE, add |-> <<>>]     \* except: pass
             ELSE IF InWindow(diff_minutes)
                  THEN [raised |-> FALSE, add |-> <<diff_minutes>>]
                  ELSE [raised |-> FALSE, add |-> <<>>]
    ELSE [raised |-> FALSE, add |-> <<>>]

\* for j in range(1, len(all_msgs)), from position j with the samples so
\* far: the loop goes on to the first body that raises
ResponseTimes(all_msgs, j, acc) ==
    LET raising == {k \in j..Len(all_msgs) : PairSample(all_msgs, k).raised}
        last == IF raising = {} THEN Len(all_msgs)
                ELSE (CHOOSE k \in raising : \A q \in raising : k <= q) - 1
    IN  [raised |-> raising # {},
         val |-> acc \o Flatten([k \in 1..(last - j + 1) |->
                                    PairSample(all_msgs, k + j - 1).add])]

\* line 182; every sample is a number of seconds over 60 (line 176)
RtMean(times) ==
    IF times # <<>>
    THEN Frac(Sum([k \in 1..Len(times) |-> times[k].num]),
              SecondsPerMinute * Len(times))
    ELSE Frac(5, 1)

\* round(x, 1) * 10 for x the population standard deviation of the samples,
\* and whether x is halfway between two tenths (lines 183 and 265).  With n
\* samples of s[k] seconds and S their sum, the variance is the sum of the
\* (n * s[k] - S)^2 over n^3 seconds squared, and x rounds to r tenths of a
\* minute when (6r - 3)^2 <= variance < (6r + 3)^2.  The squares pass 2^31:
\* a number is kept as <<hi, lo>>, that is hi * 10^6 + lo.
PopulationStd(times) ==
    LET n == Len(times)
        S == Sum([k \in 1..n |-> times[k].num])
        Norm(hi, lo) == <<hi + (lo \div 1000000), lo % 1000000>>
        Square(d) ==
            LET a == d \div 1000
                b == d % 1000
            IN  Norm(a * a + ((2 * a * b) \div 1000),
                     ((2 * a * b) % 1000) * 1000 + b * b)
        Times(x, c) == Norm(x[1] * c, x[2] * c)
        LessEq(x, y) == x[1] < y[1] \/ (x[1] = y[1] /\ x[2] <= y[2])
        squares == [k \in 1..n |->
                       Square(IF n * times[k].num >= S
                              THEN n * times[k].num - S
                              ELSE S - n * times[k].num)]
        total == Norm(Sum([k \in 1..n |-> squares[k][1]]),
                      Sum([k \in 1..n |-> squares[k][2]]))
        \* n^3 * (6r - 3)^2
        Edge(r) == Times(Times(Times(Square(6 * r - 3), n), n), n)
        Reached(r) == r = 0 \/ LessEq(Edge(r), total)
        RECURSIVE Highest(_, _)
        Highest(lo, hi) ==
            IF lo = hi THEN lo
            ELSE LET mid == (lo + hi + 1) \div 2
                 IN  IF Reached(mid) THEN Highest(mid, hi)
                     ELSE Highest(lo, mid - 1)
        r == Highest(0, 10 * MinutesPerDay)
    IN  [tenths |-> r, tie |-> r > 0 /\ Edge(r) = total]

\* line 183, as reported by line 265
RtStdFromOne(times) ==
    IF Len(times) > 0 THEN PopulationStd(times) ELSE [tenths |-> 30, tie |-> FALSE]
RtStd(times) ==
    IF Len(times) > 1 THEN PopulationStd(times) ELSE [tenths |-> 30, tie |-> FALSE]

(***************************************************************************)
(* Time patterns.                                                          *)
(***************************************************************************)
\* the body of the for loop over my_messages
HourSampleNoCatch(m) ==
    LET dt == FromIsoFormat(m.date)
    IN  IF dt.raised THEN [raised |-> TRUE, add |-> <<>>]
        ELSE [raised |-> FALSE, add |-> <<(dt.t \div SecondsPerHour) % HoursPerDay>>]
HourSample(m) ==
    LET dt == FromIsoFormat(m.date)
    IN  IF dt.raised THEN [raised |-> FALSE, add |-> <<>>]     \* except: pass
        ELSE [raised |-> FALSE, add |-> <<(dt.t \div SecondsPerHour) % HoursPerDay>>]

\* for m in my_messages, from index k with the hours so far: the loop goes
\* on to the first body that raises
Hours(my_msgs, k, acc) ==
    LET raising == {j \in k..Len(my_msgs) : HourSample(my_msgs[j]).raised}
        last == IF raising = {} THEN Len(my_msgs)
                ELSE (CHOOSE j \in raising : \A q \in raising : j <= q) - 1
    IN  [raised |-> raising # {},
         val |-> acc \o Flatten([j \in 1..(last - k + 1) |->
                                    HourSample(my_msgs[j + k - 1]).add])]

(***************************************************************************)
(* The profile (lines 225-284).                                            *)
(***************************************************************************)
None == [kind |-> "None"]
Pending == [kind |-> "pending"]
Raised == [kind |-> "exception"]

\* sorted(lengths)[len(lengths) // 2]
Median(lengths) == SortedInts(lengths)[(Len(lengths) \div 2) + 1]
MaxOf(lengths) == CHOOSE x \in Range(lengths) : \A y \in Range(lengths) : y <= x

\* len(my_messages) / max(1, len(messages) / 50)
MessagesPerDay(mine, all) ==
    IF all > 50 THEN Frac(mine * 50, all) ELSE Frac(mine, 1)

\* line 167
AvgBurst(lens) == IF lens # <<>> THEN Frac(Sum(lens), Len(lens)) ELSE Frac(1, 1)

\* line 194
ActiveHours(hrs) ==
    LET top == MostCommon(hrs, 10) IN [k \in 1..Len(top) |-> top[k].elem]

\* the dict analyze_style returns, from its locals
Assembled ==
    LET texts == Texts(messages)
        lengths == [k \in 1..Len(texts) |-> Len(texts[k])]
        punct == Punctuation(texts)
        senti == Sentiment(texts)
        active_hours == ActiveHours(hours)
        slang_level == SlangLevel(used_slang)
    IN  [kind |-> "profile",
         message_stats |->
            [total_messages_from_you |-> Len(MyMessages(messages)),
             avg_message_length |-> Sum(lengths) \div Len(lengths),
             median_message_length |-> Median(lengths),
             max_message_length |-> MaxOf(lengths),
             messages_per_day_avg |->
                Round(MessagesPerDay(Len(MyMessages(messages)), Len(messages)), 1)],
         style |->
            [capitalization |-> capitalization,
             uses_periods |-> FracLess(Frac(3, 10), punct.uses_periods),
             uses_commas |-> freq_label(punct.uses_commas),
             uses_exclamation |-> freq_label(punct.uses_exclamation),
             uses_question_marks |-> FracLess(Frac(1, 10), punct.uses_question),
             uses_ellipsis |-> FracLess(Frac(5, 100), punct.uses_ellipsis),
             uses_apostrophes |-> FracLess(Frac(2, 10), punct.uses_apostrophes),
             abbreviation_level |-> slang_level],
         emoji |->
            [frequency |-> Round(EmojiFreq(all_emojis, Len(texts)), 3),
             top_emojis |-> TopEmojis(all_emojis),
             uses_emoji_as_response |-> \E k \in 1..Len(texts) : fullmatch(texts[k])],
         vocabulary |->
            [slang_level |-> slang_level,
             top_phrases |-> TopPhrases(used_slang, top_bigrams),
             greeting_patterns |-> SortedStrs(greeting_patterns),
             farewell_patterns |-> SortedStrs(farewell_patterns),
             filler_words |-> FillerWords(all_tokens),
             vocabulary_richness |-> ReportedRichness(vocabulary_richness)],
         sentiment |->
            [avg_compound |-> Round(senti.avg_compound, 3),
             tone_label |-> senti.tone_label,
             positivity_ratio |-> Round(senti.positivity_ratio, 3),
             negativity_ratio |-> Round(senti.negativity_ratio, 3)],
         behavior |->
            [multi_message_tendency |->
                ReportedTendency(MultiMsgTendency(consecutive_bursts, total_responses)),
             avg_messages_per_burst |-> Round(AvgBurst(burst_lengths), 1),
             response_time_mean_minutes |-> Round(RtMean(response_times), 1),
             response_time_std_minutes |-> RtStd(response_times).tenths,
             initiates_conversations |-> TRUE,
             initiation_frequency_per_week |-> Round(Frac(3, 1), 1),
             tapback_frequency |-> Round(Frac(1, 10), 2),
             leaves_on_read_frequency |-> Round(Frac(5, 100), 2)],
         topics |->
            [common |-> CommonTopics(topic_scores),
             avoids |-> <<>>,
             inside_references |-> <<>>],
         time_patterns |->
            [most_active_hours |-> SortedInts(active_hours),
             morning_style |->
                IF \E k \in 1..Len(active_hours) : active_hours[k] < 10
                THEN "minimal" ELSE "inactive",
             evening_style |->
                IF \E k \in 1..Len(active_hours) :
                      18 <= active_hours[k] /\ active_hours[k] <= 23
                THEN "engaged" ELSE "inactive",
             weekend_vs_weekday |-> "similar"]]

(***************************************************************************)
(* analyze_style, block by block.                                          *)
(***************************************************************************)
\* line 43
TooFewLoose(my_messages) == Len(my_messages) < MinSubjectMessages - 1
TooFew(my_messages) == Len(my_messages) < MinSubjectMessages

\* lines 42-44: too few subject messages
ReturnNone ==
    /\ pc = "start"
    /\ TooFew(MyMessages(messages))
    /\ profile' = None
    /\ pc' = "done"
    /\ UNCHANGED <<conversations, embedder, mainvars, messages, lexical,
                   vocabulary, timing, topic_scores, previous>>

Enter ==
    /\ pc = "start"
    /\ ~TooFew(MyMessages(messages))
    /\ pc' = "lexical"
    /\ UNCHANGED <<conversations, embedder, mainvars, messages, lexical,
                   vocabulary, timing, topic_scores, profile, previous>>

\* lines 46-80
LexicalScan ==
    /\ pc = "lexical"
    /\ capitalization' = Capitalization(Texts(messages))
    /\ all_emojis' = AllEmojis(Texts(messages), 1)
    /\ pc' = "tokens"
    /\ UNCHANGED <<conversations, embedder, mainvars, messages, vocabulary,
                   timing, topic_scores, profile, previous>>

\* lines 82-99
Tokenize ==
    /\ pc = "tokens"
    /\ all_tokens' = AllTokens(Texts(messages), 1)
    /\ pc' = "slang"
    /\ UNCHANGED <<conversations, embedder, mainvars, messages, lexical,
                   used_slang, top_bigrams, vocabulary_richness,
                   greeting_patterns, farewell_patterns, timing, topic_scores,
                   profile, previous>>

\* lines 101-110: the comprehension visits slang_words in the order the set
\* iterates, which the hash seed of the process decides
SlangScan ==
    /\ pc = "slang"
    /\ used_slang' \in Orderings(UsedSlang(all_tokens))
    /\ pc' = "vocabulary"
    /\ UNCHANGED <<conversations, embedder, mainvars, messages, lexical,
                   all_tokens, top_bigrams, vocabulary_richness,
                   greeting_patterns, farewell_patterns, timing, topic_scores,
                   profile, previous>>

\* lines 112-122
VocabularyScan ==
    /\ pc = "vocabulary"
    /\ top_bigrams' = TopBigrams(Texts(messages))
    /\ vocabulary_richness' = VocabularyRichness(all_tokens)
    /\ pc' = "patterns"
    /\ UNCHANGED <<conversations, embedder, mainvars, messages, lexical,
                   all_tokens, used_slang, greeting_patterns, farewell_patterns,
                   timing, topic_scores, profile, previous>>

\* lines 139-145: both comprehensions visit a set
PatternScan ==
    /\ pc = "patterns"
    /\ greeting_patterns' \in Orderings(GreetingsUsed(Texts(messages)))
    /\ farewell_patterns' \in Orderings(FarewellsUsed(all_tokens))
    /\ pc' = "bursts"
    /\ UNCHANGED <<conversations, embedder, mainvars, messages, lexical,
                   all_tokens, used_slang, top_bigrams, vocabulary_richness,
                   timing, topic_scores, profile, previous>>

\* lines 147-167
BurstScan ==
    /\ pc = "bursts"
    /\ LET r == ScanBursts(messages, 1, 0, <<>>)
       IN  /\ consecutive_bursts' = r.consecutive_bursts
           /\ burst_lengths' = r.burst_lengths
    /\ total_responses' = TotalResponses(messages)
    /\ pc' = "responses"
    /\ UNCHANGED <<conversations, embedder, mainvars, messages, lexical,
                   vocabulary, response_times, hours, topic_scores, profile,
                   previous>>

\* lines 169-183
ResponseTimeScan ==
    /\ pc = "responses"
    /\ LET r == ResponseTimes(messages, 2, <<>>)
       IN  IF r.raised
           THEN /\ profile' = Raised
                /\ pc' = "done"
                /\ UNCHANGED response_times
           ELSE /\ response_times' = r.val
                /\ pc' = "hours"
                /\ UNCHANGED profile
    /\ UNCHANGED <<conversations, embedder, mainvars, messages, lexical,
                   vocabulary, consecutive_bursts, burst_lengths,
                   total_responses, hours, topic_scores, previous>>

\* lines 185-194
TimePatterns ==
    /\ pc = "hours"
    /\ LET r == Hours(MyMessages(messages), 1, <<>>)
       IN  IF r.raised
           THEN /\ profile' = Raised
                /\ pc' = "done"
                /\ UNCHANGED hours
           ELSE /\ hours' = r.val
                /\ pc' = "topics"
                /\ UNCHANGED profile
    /\ UNCHANGED <<conversations, embedder, mainvars, messages, lexical,
                   vocabulary, consecutive_bursts, burst_lengths,
                   total_responses, response_times, topic_scores, previous>>

\* lines 196-213
TopicScan ==
    /\ pc = "topics"
    /\ topic_scores' = TopicScores(Texts(messages))
    /\ pc' = "assemble"
    /\ UNCHANGED <<conversations, embedder, mainvars, messages, lexical,
                   vocabulary, timing, profile, previous>>

\* lines 225-284
Return ==
    /\ pc = "assemble"
    /\ profile' = Assembled
    /\ pc' = "done"
    /\ UNCHANGED <<conversations, embedder, mainvars, messages, lexical,
                   vocabulary, timing, topic_scores, previous>>

NextAnalyze ==
    \/ ReturnNone
    \/ Enter
    \/ LexicalScan
    \/ Tokenize
    \/ SlangScan
    \/ VocabularyScan
    \/ PatternScan
    \/ BurstScan
    \/ ResponseTimeScan
    \/ TimePatterns
    \/ TopicScan
    \/ Return

\* the locals before analyze_style has run
FreshLocals ==
    [capitalization |-> "unset", all_emojis |-> <<>>, all_tokens |-> <<>>,
     used_slang |-> <<>>, top_bigrams |-> <<>>,
     vocabulary_richness |-> Frac(0, 1), greeting_patterns |-> <<>>,
     farewell_patterns |-> <<>>, consecutive_bursts |-> 0,
     burst_lengths |-> <<>>, total_responses |-> 0, response_times |-> <<>>,
     hours |-> <<>>, topic_scores |-> <<>>]

InitLocals ==
    /\ capitalization = FreshLocals.capitalization
    /\ all_emojis = FreshLocals.all_emojis
    /\ all_tokens = FreshLocals.all_tokens
    /\ used_slang = FreshLocals.used_slang
    /\ top_bigrams = FreshLocals.top_bigrams
    /\ vocabulary_richness = FreshLocals.vocabulary_richness
    /\ greeting_patterns = FreshLocals.greeting_patterns
    /\ farewell_patterns = FreshLocals.farewell_patterns
    /\ consecutive_bursts = FreshLocals.consecutive_bursts
    /\ burst_lengths = FreshLocals.burst_lengths
    /\ total_responses = FreshLocals.total_responses
    /\ response_times = FreshLocals.response_times
    /\ hours = FreshLocals.hours
    /\ topic_scores = FreshLocals.topic_scores
    /\ profile = Pending
    /\ previous = Pending

\* a call of analyze_style: its argument, and locals that are new
CallAnalyze(all_msgs) ==
    /\ messages' = all_msgs
    /\ pc' = "start"
    /\ profile' = Pending
    /\ capitalization' = FreshLocals.capitalization
    /\ all_emojis' = FreshLocals.all_emojis
    /\ all_tokens' = FreshLocals.all_tokens
    /\ used_slang' = FreshLocals.used_slang
    /\ top_bigrams' = FreshLocals.top_bigrams
    /\ vocabulary_richness' = FreshLocals.vocabulary_richness
    /\ greeting_patterns' = FreshLocals.greeting_patterns
    /\ farewell_patterns' = FreshLocals.farewell_patterns
    /\ consecutive_bursts' = FreshLocals.consecutive_bursts
    /\ burst_lengths' = FreshLocals.burst_lengths
    /\ total_responses' = FreshLocals.total_responses
    /\ response_times' = FreshLocals.response_times
    /\ hours' = FreshLocals.hours
    /\ topic_scores' = FreshLocals.topic_scores

\* analyze_style is called again on the corpus it has returned from, in a
\* process of its own; what the first call returned and the orders in which
\* it iterated its sets are kept for comparison
RunAgain ==
    /\ pc = "done"
    /\ all_chats = <<>>
    /\ previous = Pending
    /\ previous' = [kind |-> "run", profile |-> profile, used_slang |-> used_slang,
                    greeting_patterns |-> greeting_patterns,
                    farewell_patterns |-> farewell_patterns]
    /\ CallAnalyze(messages)
    /\ UNCHANGED <<conversations, embedder, mainvars>>

NextTwice ==
    \/ NextAnalyze
    \/ RunAgain

\* main is not running: analyze_style is applied to a corpus on its own
NoMain ==
    /\ all_chats = <<>>
    /\ chat_index = 1
    /\ files = <<>>
    /\ profiles_generated = 0
    /\ conversations = <<>>
    /\ all_chunks = <<>>
    /\ chunk_index = 0
    /\ attempt = 0
    /\ embedding = None
    /\ total_embedded = 0
    /\ service = <<>>

(***************************************************************************)
(* main (lines 287-345).                                                   *)
(***************************************************************************)
\* chat_id.split(";")[-1]
LastField(chat_id) ==
    LET seps == {i \in 1..Len(chat_id) : chat_id[i] = ";"}
        from == IF seps = {} THEN 1
                ELSE (CHOOSE i \in seps : \A j \in seps : j <= i) + 1
    IN  SubSeq(chat_id, from, Len(chat_id))

\* \w of a regular expression, for one character
IsWord(c) == IsAlpha(c) \/ IsDigit(c) \/ c = "_"

\* re.sub(r'[^\w\-]', '_', t)
Sanitized(t) == [k \in 1..Len(t) |-> IF IsWord(t[k]) \/ t[k] = "-" THEN t[k] ELSE "_"]

\* t.strip('_')
Strip(t) ==
    LET kept == {i \in 1..Len(t) : t[i] # "_"}
    IN  IF kept = {} THEN <<>>
        ELSE SubSeq(t, CHOOSE i \in kept : \A j \in kept : i <= j,
                       CHOOSE i \in kept : \A j \in kept : j <= i)

\* contact_id.replace("+", "").replace(" ", "_")
Fallback(contact_id) ==
    LET kept == SelectSeq(contact_id, LAMBDA c: c # "+")
    IN  [k \in 1..Len(kept) |-> IF kept[k] = " " THEN "_" ELSE kept[k]]

\* lines 333-335
SafeName(display_name, contact_id) ==
    LET safe_name == Strip(Lower(Sanitized(IF display_name # <<>> THEN display_name
                                           ELSE contact_id)))
    IN  IF safe_name = <<>> THEN Fallback(contact_id) ELSE safe_name

\* lines 310-312
AllMsgs(chat_data) == Flatten(chat_data.conversations)

\* lines 325-330: the dict that is written
ProfileOf(chat, style) ==
    LET contact_id == LastField(chat.chat_id)
    IN  [contact |-> IF chat.display_name # <<>> THEN chat.display_name ELSE contact_id,
         phone |-> IF StartsWith(contact_id, <<"+">>) THEN contact_id ELSE <<>>,
         relationship_tier |-> "friend",
         style |-> style]

\* the chat the loop is at
InLoop == pc = "loop" /\ chat_index <= Len(all_chats)

\* lines 307-308
SkipGroup ==
    /\ InLoop
    /\ all_chats[chat_index].is_group
    /\ chat_index' = chat_index + 1
    /\ UNCHANGED <<conversations, embedder, all_chats, files,
                   profiles_generated, messages, pc, lexical, vocabulary,
                   timing, topic_scores, profile, previous>>

\* lines 310-315
SkipShort ==
    /\ InLoop
    /\ ~all_chats[chat_index].is_group
    /\ Len(AllMsgs(all_chats[chat_index])) < MinChatMessages
    /\ chat_index' = chat_index + 1
    /\ UNCHANGED <<conversations, embedder, all_chats, files,
                   profiles_generated, messages, pc, lexical, vocabulary,
                   timing, topic_scores, profile, previous>>

\* line 317: the call
Analyze ==
    /\ InLoop
    /\ ~all_chats[chat_index].is_group
    /\ Len(AllMsgs(all_chats[chat_index])) >= MinChatMessages
    /\ CallAnalyze(AllMsgs(all_chats[chat_index]))
    /\ UNCHANGED <<conversations, embedder, mainvars, previous>>

\* lines 318-319
SkipNone ==
    /\ pc = "done"
    /\ all_chats # <<>>
    /\ profile = None
    /\ chat_index' = chat_index + 1
    /\ pc' = "loop"
    /\ UNCHANGED <<conversations, embedder, all_chats, files,
                   profiles_generated, messages, lexical, vocabulary, timing,
                   topic_scores, profile, previous>>

\* lines 321-341: open(output_file, "w") replaces a file of that name
Store ==
    /\ pc = "done"
    /\ all_chats # <<>>
    /\ profile.kind = "profile"
    /\ LET chat == all_chats[chat_index]
           safe_name == SafeName(chat.display_name, LastField(chat.chat_id))
       IN  files' = [n \in DOMAIN files \cup {safe_name} |->
                        IF n = safe_name THEN ProfileOf(chat, profile) ELSE files[n]]
    /\ profiles_generated' = profiles_generated + 1
    /\ chat_index' = chat_index + 1
    /\ pc' = "loop"
    /\ UNCHANGED <<conversations, embedder, all_chats, messages, lexical,
                   vocabulary, timing, topic_scores, profile, previous>>

\* line 345: the loop is over
Finish ==
    /\ pc = "loop"
    /\ chat_index > Len(all_chats)
    /\ pc' = "finished"
    /\ UNCHANGED <<conversations, embedder, mainvars, messages, lexical,
                   vocabulary, timing, topic_scores, profile, previous>>

Next ==
    \/ SkipGroup
    \/ SkipShort
    \/ Analyze
    \/ NextAnalyze
    \/ SkipNone
    \/ Store
    \/ Finish

(***************************************************************************)
(* generate_embeddings: embed_text (lines 65-84) and the embedding loop of *)
(* main (lines 125-143).  pc is the line that runs next.  A call of        *)
(* embed_content raises, or returns a response without embeddings, or one  *)
(* whose first embedding has values, or one whose first embedding has an   *)
(* empty list of values.  service keeps every call of embed_content and of *)
(* time.sleep, in order.                                                   *)
(***************************************************************************)
\* the default of embed_text's parameter; main passes no other
retries == 3

\* lines 125-126 and 67: main takes the next chunk and calls embed_text, whose
\* loop starts, or is over at once
NextChunk ==
    /\ pc = "embed_loop"
    /\ chunk_index < Len(all_chunks)
    /\ attempt' = 0
    /\ IF 0 < retries
       THEN pc' = "try" /\ UNCHANGED embedding
       ELSE pc' = "returned" /\ embedding' = None
    /\ UNCHANGED <<conversations, mainvars, messages, lexical, vocabulary, timing,
                   topic_scores, profile, previous, all_chunks, chunk_index,
                   total_embedded, service>>

\* lines 68-76: the call of the service, and the return when it did not raise
EmbedContent ==
    /\ pc = "try"
    /\ \E outcome \in {"raises", "no_embeddings", "values", "no_values"} :
          /\ service' = Append(service,
                               [by |-> "embed_text", chunk |-> chunk_index,
                                attempt |-> attempt, call |-> "embed_content",
                                arg |-> outcome])
          /\ pc' = IF outcome = "raises" THEN "except" ELSE "returned"
          /\ embedding' =
                CASE outcome = "raises" -> embedding
                  [] outcome = "values" -> [kind |-> "list", len |-> 768]
                  [] outcome = "no_values" -> [kind |-> "list", len |-> 0]
                  [] OTHER -> None
    /\ UNCHANGED <<conversations, mainvars, messages, lexical, vocabulary, timing,
                   topic_scores, profile, previous, all_chunks, chunk_index,
                   attempt, total_embedded>>

\* lines 77-84 and 67: before the last attempt, sleep and go on to the next
\* one; at the last, return None
ExceptRaises ==
    /\ pc = "except"
    /\ IF attempt < retries - 1
       THEN /\ service' = Append(service,
                                 [by |-> "embed_text", chunk |-> chunk_index,
                                  attempt |-> attempt, call |-> "sleep",
                                  arg |-> Frac(2 ^ attempt, 1)])
            /\ attempt' = attempt + 1
            /\ pc' = "try"
       ELSE /\ pc' = "raised"
            /\ UNCHANGED <<attempt, service>>
    /\ UNCHANGED <<conversations, mainvars, messages, lexical, vocabulary, timing,
                   topic_scores, profile, previous, all_chunks, chunk_index,
                   embedding, total_embedded>>
Except ==
    /\ pc = "except"
    /\ IF attempt < retries - 1
       THEN /\ service' = Append(service,
                                 [by |-> "embed_text", chunk |-> chunk_index,
                                  attempt |-> attempt, call |-> "sleep",
                                  arg |-> Frac(2 ^ attempt, 1)])
            /\ attempt' = attempt + 1
            /\ pc' = "try"
            /\ UNCHANGED embedding
       ELSE /\ embedding' = None
            /\ pc' = "returned"
            /\ UNCHANGED <<attempt, service>>
    /\ UNCHANGED <<conversations, mainvars, messages, lexical, vocabulary, timing,
                   topic_scores, profile, previous, all_chunks, chunk_index,
                   total_embedded>>

\* lines 127-135: None and an empty list are not kept
Keep ==
    /\ pc = "returned"
    /\ IF embedding # None /\ embedding.len > 0
       THEN /\ all_chunks' = [all_chunks EXCEPT ![chunk_index + 1].embedding = embedding]
            /\ total_embedded' = total_embedded + 1
       ELSE UNCHANGED <<all_chunks, total_embedded>>
    /\ service' = Append(service,
                         [by |-> "main", chunk |-> chunk_index, attempt |-> attempt,
                          call |-> "sleep", arg |-> Frac(5, 100)])
    /\ chunk_index' = chunk_index + 1
    /\ pc' = "embed_loop"
    /\ UNCHANGED <<conversations, mainvars, messages, lexical, vocabulary, timing,
                   topic_scores, profile, previous, attempt, embedding>>

\* lines 138-143: the chunks with an embedding are written
Save ==
    /\ pc = "embed_loop"
    /\ ~(chunk_index < Len(all_chunks))
    /\ all_chunks' = SelectSeq(all_chunks, LAMBDA c: c.embedding # None)
    /\ files' = [n \in {"chunks_with_embeddings.json"} |-> all_chunks']
    /\ pc' = "saved"
    /\ UNCHANGED <<conversations, all_chats, chat_index, profiles_generated, messages,
                   lexical, vocabulary, timing, topic_scores, profile, previous,
                   chunk_index, attempt, embedding, total_embedded, service>>

NextEmbed ==
    \/ NextChunk
    \/ EmbedContent
    \/ Except
    \/ Keep
    \/ Save

(***************************************************************************)
(* extract_history: split_into_conversations (lines 83-105), applied to    *)
(* the messages of one chat (main, line 124).                              *)
(***************************************************************************)
\* the default of split_into_conversations' parameter gap_minutes
DefaultGap == 60

\* the loop of lines 91-100 from message k on, then lines 102-105
split_at_the_gap(msgs, gap_minutes) ==
    LET RECURSIVE loop(_, _, _)
        loop(k, done, current) ==
            IF k > Len(msgs) THEN done \o <<current>>
            ELSE LET prev_time == FromIsoFormat(current[Len(current)].date)
                     curr_time == FromIsoFormat(msgs[k].date)
                     gap == Frac(curr_time.t - prev_time.t, SecondsPerMinute)
                 IN  IF ~FracLess(gap, Frac(gap_minutes, 1))
                     THEN loop(k + 1, done \o <<current>>, <<msgs[k]>>)
                     ELSE loop(k + 1, done, current \o <<msgs[k]>>)
    IN  IF msgs = <<>> THEN <<>> ELSE loop(2, <<>>, <<msgs[1]>>)
split_into_conversations(msgs, gap_minutes) ==
    LET RECURSIVE loop(_, _, _)
        loop(k, done, current) ==
            IF k > Len(msgs) THEN done \o <<current>>
            ELSE LET prev_time == FromIsoFormat(current[Len(current)].date)
                     curr_time == FromIsoFormat(msgs[k].date)
                     gap == Frac(curr_time.t - prev_time.t, SecondsPerMinute)
                 IN  IF FracLess(Frac(gap_minutes, 1), gap)
                     THEN loop(k + 1, done \o <<current>>, <<msgs[k]>>)
                     ELSE loop(k + 1, done, current \o <<msgs[k]>>)
    IN  IF msgs = <<>> THEN <<>> ELSE loop(2, <<>>, <<msgs[1]>>)

\* main, line 124
Split ==
    /\ pc = "split"
    /\ conversations' = split_into_conversations(messages, DefaultGap)
    /\ pc' = "split_done"
    /\ UNCHANGED <<embedder, mainvars, messages, lexical, vocabulary, timing,
                   topic_scores, profile, previous>>

(***************************************************************************)
(* Corpora.                                                                *)
(***************************************************************************)
Ok == <<"o", "k">>
Noon == 12 * SecondsPerHour

\* n exchanges (an other-party message, then a subject message), one minute
\* apart, the first at clock + 60
Exchanges(n, clock) ==
    [k \in 1..(2 * n) |-> Msg(k % 2 = 0, Ok, GoodDate(clock + 60 * k))]

\* n subject messages in a row, one minute apart
Monologue(n, clock) == [k \in 1..n |-> Msg(TRUE, Ok, GoodDate(clock + 60 * k))]

\* the endings a corpus is completed with
Endings == {"none", "exchanges19", "exchanges20", "monologue19", "monologue20",
          "blank"}

Ending(kind, clock) ==
    CASE kind = "none" -> <<>>
      [] kind = "exchanges19" -> Exchanges(19, clock)
      [] kind = "exchanges20" -> Exchanges(20, clock)
      [] kind = "monologue19" -> Monologue(19, clock)
      [] kind = "monologue20" -> Monologue(20, clock)
      \* twenty subject messages, the first of them with an empty text
      [] kind = "blank" ->
            <<Msg(TRUE, <<>>, GoodDate(clock + 60))>> \o Exchanges(19, clock + 60)

\* heads that vary in author: h[k] says whether message k is the subject's
AuthorHeads == UNION {[1..n -> BOOLEAN] : n \in 0..MaxAuthors}

RECURSIVE AuthorHead(_, _, _)
AuthorHead(h, k, clock) ==
    IF k > Len(h) THEN <<>>
    ELSE <<Msg(h[k], Ok, GoodDate(clock + 60))>> \o AuthorHead(h, k + 1, clock + 60)

\* heads that vary in author and in date: each message comes `gap` seconds
\* after the one before it, or carries a date that does not parse
Gaps == {-60, 0, 180, 86399, 86400, 90000}
TimedVariants ==
    {v \in [is_from_me : BOOLEAN, valid : BOOLEAN, gap : Gaps] :
        v.valid \/ v.gap = 0}
TimedHeads == UNION {[1..n -> TimedVariants] : n \in 0..MaxTimed}

RECURSIVE TimedHead(_, _, _)
TimedHead(h, k, clock) ==
    IF k > Len(h) THEN <<>>
    ELSE <<Msg(h[k].is_from_me, Ok,
               IF h[k].valid THEN GoodDate(clock + h[k].gap) ELSE BadDate)>>
         \o TimedHead(h, k + 1, clock + h[k].gap)

RECURSIVE Elapsed(_, _)
Elapsed(h, k) == IF k > Len(h) THEN 0 ELSE h[k].gap + Elapsed(h, k + 1)

InitBurst ==
    /\ \E h \in AuthorHeads, ending \in Endings :
          messages = AuthorHead(h, 1, Noon) \o Ending(ending, Noon + 60 * Len(h))
    /\ pc = "start"
    /\ InitLocals
    /\ NoMain

InitTiming ==
    /\ \E h \in TimedHeads,
          ending \in {"exchanges19", "exchanges20", "monologue20", "blank"} :
          messages = TimedHead(h, 1, Noon) \o Ending(ending, Noon + Elapsed(h, 1))
    /\ pc = "start"
    /\ InitLocals
    /\ NoMain

\* texts of the corpora below: one that starts uppercase, one without a
\* word, one of the other party, one with two emoji, one that mentions food
\* and gaming five times each, two phrases made of slang, greetings and
\* farewells, one of eight words around a stop word, one of its last two
\* words, and one of two adjacent emoji
Sample ==
    [upper |-> <<"O", "k", " ", "y", "e", "s">>,
     digit |-> <<"5">>,
     theirs |-> <<"H", "e", "y", " ", "Y", "O", "U">>,
     emoji |-> <<"U+1F600", " ", "U+2764">>,
     keywords |->
        <<"e", "a", "t", " ", "p", "c", " ", "e", "a", "t", " ", "p", "c", " ",
          "e", "a", "t", " ", "p", "c", " ", "e", "a", "t", " ", "p", "c", " ",
          "e", "a", "t", " ", "p", "c">>,
     hey |-> <<"h", "e", "y", " ", "l", "o", "l", " ", "b", "r", "o">>,
     hi |-> <<"h", "i", " ", "b", "e", "t", " ", "g", "n">>,
     long |->
        <<"w", "i", "n", " ", "t", "h", "e", " ", "s", "o", "n", "g", " ",
          "f", "i", "l", "m", " ", "t", "r", "i", "p", " ", "j", "o", "b", " ",
          "e", "a", "t", " ", "p", "c">>,
     short |-> <<"E", "a", "t", " ", "p", "c">>,
     pair |-> <<"U+1F600", "U+2764">>]

\* n subject messages with the text t, one minute apart
Block(t, n, clock) == [k \in 1..n |-> Msg(TRUE, t, GoodDate(clock + 60 * k))]

\* corpora that vary in how many subject texts start lowercase ("ok"), start
\* uppercase ("Ok yes") and start with neither ("5"); the other party writes
\* between the blocks
InitText ==
    /\ \E nl, nu, no \in 0..MaxSubject :
          /\ MinSubjectMessages - 1 <= nl + nu + no
          /\ nl + nu + no <= MaxSubject
          /\ messages =
                Block(Ok, nl, Noon)
                \o <<Msg(FALSE, Sample.theirs, GoodDate(Noon + 60 * nl + 60))>>
                \o Block(Sample.upper, nu, Noon + 60 * nl + 60)
                \o <<Msg(FALSE, Sample.theirs, GoodDate(Noon + 60 * (nl + nu) + 120))>>
                \o Block(Sample.digit, no, Noon + 60 * (nl + nu) + 120)
    /\ pc = "start"
    /\ InitLocals
    /\ NoMain

\* corpora that vary in how often each topic is mentioned: nineteen "ok",
\* then for each topic one subject message that repeats one of its keywords
TopicWords ==
    <<<<"e", "a", "t">>, <<"p", "c">>, <<"p", "r", "o", "f">>,
      <<"w", "i", "n">>, <<"s", "o", "n", "g">>, <<"f", "i", "l", "m">>,
      <<"t", "r", "i", "p">>, <<"j", "o", "b">>>>

\* the word w, n times, with spaces between
RECURSIVE Repeated(_, _)
Repeated(w, n) ==
    IF n = 0 THEN <<>>
    ELSE IF n = 1 THEN w
    ELSE w \o <<" ">> \o Repeated(w, n - 1)

\* one message per topic from k on that is mentioned at all
RECURSIVE Mentions(_, _, _)
Mentions(counts, k, clock) ==
    IF k > Len(counts) THEN <<>>
    ELSE IF counts[k] = 0 THEN Mentions(counts, k + 1, clock)
    ELSE <<Msg(TRUE, Repeated(TopicWords[k], counts[k]), GoodDate(clock + 60))>>
         \o Mentions(counts, k + 1, clock + 60)

\* a topic is not mentioned, or misses the threshold by one, or reaches it
KeywordCounts == {0} \cup ((MinTopicScore - 1)..MaxKeywordCount)

InitTopics ==
    /\ \E a, b, c, d \in KeywordCounts :
          messages =
            Block(Ok, MinSubjectMessages - 1, Noon)
            \o Mentions(<<a, b, c, d, c, d, c, d>>, 1,
                        Noon + 60 * MinSubjectMessages)
    /\ pc = "start"
    /\ InitLocals
    /\ NoMain

\* corpora whose words are in the slang, greeting and farewell sets: "ok"
\* seventeen or eighteen times, two texts with emoji and topic keywords, and
\* two phrases, each up to MaxPhrase times; the messages are 4 minutes apart
\* and so fall into two hours of the day
Spaced(texts, clock) ==
    [k \in 1..Len(texts) |-> Msg(TRUE, texts[k], GoodDate(clock + 240 * k))]

InitTwice ==
    /\ \E base \in {MinSubjectMessages - 3, MinSubjectMessages - 2},
          heys, his \in 0..MaxPhrase :
          messages =
            Spaced([k \in 1..base |-> Ok]
                   \o <<Sample.emoji, Sample.keywords>>
                   \o [k \in 1..heys |-> Sample.hey]
                   \o [k \in 1..his |-> Sample.hi], Noon)
    /\ pc = "start"
    /\ InitLocals
    /\ NoMain

\* corpora that vary in their bigrams and emoji: 19 or 20 fillers ("ok", or
\* two emoji with a space between, or two adjacent emoji), then up to
\* MaxRepeats times a text with six bigrams around a stop word, up to
\* MaxRepeats times "Eat pc", and possibly "job" and "eat" in two messages
InitWords ==
    /\ \E filler \in {Ok, Sample.emoji, Sample.pair},
          base \in {MinSubjectMessages - 1, MinSubjectMessages},
          longs, shorts \in 0..MaxRepeats, split \in BOOLEAN :
          messages =
            Spaced([k \in 1..base |-> filler]
                   \o [k \in 1..longs |-> Sample.long]
                   \o [k \in 1..shorts |-> Sample.short]
                   \o (IF split THEN <<TopicWords[8], TopicWords[1]>> ELSE <<>>),
                   Noon)
    /\ pc = "start"
    /\ InitLocals
    /\ NoMain

\* the messages of one chat as extract_messages returns them: up to
\* MaxMessages of them in the order of their dates, each at the date of the
\* one before it, or an hour later, or an hour and a second, or two hours
InitSplit ==
    /\ \E n \in 0..MaxMessages :
          \E gaps \in [1..n -> {0, 3600, 3601, 7200}] :
              messages =
                [k \in 1..n |->
                    Msg(k % 2 = 0, <<Digits[k + 1]>>,
                        GoodDate(Noon + Sum([j \in 1..k |-> gaps[j]])))]
    /\ pc = "split"
    /\ NoMain
    /\ InitLocals

\* main at line 122: up to MaxChunks chunks, none with an embedding
InitEmbed ==
    /\ \E n \in 0..MaxChunks :
          all_chunks = [k \in 1..n |-> [text |-> <<Digits[k + 1]>>, embedding |-> None]]
    /\ chunk_index = 0
    /\ attempt = 0
    /\ embedding = None
    /\ total_embedded = 0
    /\ service = <<>>
    /\ pc = "embed_loop"
    /\ messages = <<>>
    /\ all_chats = <<>>
    /\ chat_index = 1
    /\ files = <<>>
    /\ profiles_generated = 0
    /\ conversations = <<>>
    /\ InitLocals

\* conversations.json: up to MaxChats chats, each a group chat, or a chat of
\* 49 messages, or one of 50 messages with 19 of the subject's, or one of 50
\* with 25 of them; each named "Sam" or "sam!" or not named
ChatKinds == {"group", "short", "few", "good"}
ChatNames == {<<"S", "a", "m">>, <<"s", "a", "m", "!">>, <<>>}

\* the messages of a chat of that kind
ChatMessages(kind) ==
    CASE kind = "short" ->
            Exchanges(24, Noon) \o <<Msg(FALSE, Ok, GoodDate(Noon + 60 * 49))>>
      [] kind = "few" ->
            Exchanges(19, Noon)
            \o [k \in 1..12 |-> Msg(FALSE, Ok, GoodDate(Noon + 60 * (38 + k)))]
      [] OTHER -> Exchanges(25, Noon)

\* the k-th chat: "s;+1", "s;+2", ...; its messages in two conversations
Chat(k, kind, name) ==
    [chat_id |-> <<"s", ";", "+", Digits[k + 1]>>,
     display_name |-> name,
     is_group |-> kind = "group",
     conversations |-> <<SubSeq(ChatMessages(kind), 1, 10),
                         SubSeq(ChatMessages(kind), 11, Len(ChatMessages(kind)))>>]

Init ==
    /\ \E n \in 0..MaxChats :
          \E kinds \in [1..n -> ChatKinds], names \in [1..n -> ChatNames] :
              all_chats = [k \in 1..n |-> Chat(k, kinds[k], names[k])]
    /\ chat_index = 1
    /\ files = <<>>
    /\ profiles_generated = 0
    /\ messages = <<>>
    /\ pc = "loop"
    /\ InitLocals
    /\ conversations = <<>>
    /\ all_chunks = <<>>
    /\ chunk_index = 0
    /\ attempt = 0
    /\ embedding = None
    /\ total_embedded = 0
    /\ service = <<>>

Spec == Init /\ [][Next]_vars
SpecBurst == InitBurst /\ [][NextAnalyze]_vars
SpecTiming == InitTiming /\ [][NextAnalyze]_vars
SpecText == InitText /\ [][NextAnalyze]_vars
SpecTopics == InitTopics /\ [][NextAnalyze]_vars
SpecTwice == InitTwice /\ [][NextTwice]_vars
SpecWords == InitWords /\ [][NextAnalyze]_vars
SpecSplit == InitSplit /\ [][Split]_vars
SpecEmbed == InitEmbed /\ [][NextEmbed]_vars /\ WF_vars(NextEmbed)
(***************************************************************************)
(* What the claims say, stated on the corpus alone.                        *)
(***************************************************************************)
\* analyze_style has returned a profile
Profiled == pc = "done" /\ profile.kind = "profile"

\* the burst scan has run
Scanned == pc \in {"responses", "hours", "topics", "assemble"} \/ Profiled

\* the response-time scan has run
Timed == pc \in {"hours", "topics", "assemble"} \/ Profiled

\* the messages the subject wrote, whatever their text
FromMe(msgs) == {k \in 1..Len(msgs) : msgs[k].is_from_me}

\* the subject messages the engine analyses: those with a text
Subject(msgs) == {k \in FromMe(msgs) : msgs[k].text # <<>>}

\* the maximal runs of consecutive subject messages, as <<first, last>>
Runs(msgs) ==
    {r \in FromMe(msgs) \X FromMe(msgs) :
        /\ r[1] <= r[2]
        /\ \A k \in r[1]..r[2] : msgs[k].is_from_me
        /\ (r[1] = 1 \/ ~msgs[r[1] - 1].is_from_me)
        /\ (r[2] = Len(msgs) \/ ~msgs[r[2] + 1].is_from_me)}

LongRuns(msgs) == {r \in Runs(msgs) : r[2] - r[1] + 1 > 1}

\* the members of a set of positions, ascending
Ascending(S) ==
    [k \in 1..Cardinality(S) |->
        CHOOSE x \in S : Cardinality({y \in S : y < x}) = k - 1]

\* the members of a set of runs, in corpus order
RunsInOrder(R) ==
    LET firsts == Ascending({r[1] : r \in R})
    IN  [k \in 1..Len(firsts) |-> CHOOSE r \in R : r[1] = firsts[k]]

\* the positions of the claim's response pairs
Responses(msgs) ==
    {j \in 2..Len(msgs) : msgs[j].is_from_me /\ ~msgs[j - 1].is_from_me}

\* [them, me, me, me, them, me]
Example ==
    <<Msg(FALSE, Ok, GoodDate(60)), Msg(TRUE, Ok, GoodDate(120)),
      Msg(TRUE, Ok, GoodDate(180)), Msg(TRUE, Ok, GoodDate(240)),
      Msg(FALSE, Ok, GoodDate(300)), Msg(TRUE, Ok, GoodDate(360))>>

IsPrefix(p, s) == Len(p) <= Len(s) /\ \A k \in 1..Len(p) : s[k].is_from_me = p[k].is_from_me

(***************************************************************************)
(* C1.  A corpus in which the subject wrote fewer than 20 messages, of any *)
(* size and interleaving, makes analyze_style return None, and no          *)
(* exception leaves it.                                                    *)
(***************************************************************************)
C1_FewSubjectMessagesGiveNone ==
    (pc = "done" /\ Cardinality(FromMe(messages)) < 20) => profile = None

\* nineteen subject messages among at least forty: None came back
C1_Witness ==
    /\ pc = "done"
    /\ Cardinality(FromMe(messages)) = 19
    /\ Len(messages) >= 40
    /\ profile = None

(***************************************************************************)
(* C3.  The burst scan counts the maximal runs of consecutive subject      *)
(* messages that are longer than 1 and lists their lengths in corpus order;*)
(* runs of length 1 count nowhere.  On [them, me, me, me, them, me] it     *)
(* gives burst_lengths = [3], consecutive_bursts = 1, total_responses = 2  *)
(* and a tendency of 0.5.                                                  *)
(***************************************************************************)
C3_BurstsAreLongRuns ==
    /\ Scanned =>
          LET runs == RunsInOrder(LongRuns(messages))
          IN  /\ consecutive_bursts = Cardinality(LongRuns(messages))
              /\ burst_lengths = [k \in 1..Len(runs) |-> runs[k][2] - runs[k][1] + 1]
    /\ LET r == ScanBursts(Example, 1, 0, <<>>)
       IN  /\ r.burst_lengths = <<3>>
           /\ r.consecutive_bursts = 1
           /\ TotalResponses(Example) = 2
           /\ FracEq(MultiMsgTendency(r.consecutive_bursts, TotalResponses(Example)),
                     Frac(1, 2))

\* a corpus that starts [them, me, me, me, them, me, them]: the scan found the
\* burst of 3 and passed over the runs of length 1
C3_Witness ==
    /\ Scanned
    /\ IsPrefix(Example, messages)
    /\ Len(messages) > 6 /\ ~messages[7].is_from_me
    /\ burst_lengths = <<3>>
    /\ consecutive_bursts = 1
    /\ Cardinality(Runs(messages)) > 2

(***************************************************************************)
(* C4.  As claimed: the reported multi_message_tendency equals             *)
(* consecutive_bursts / total_responses clamped to at most 1.0, with       *)
(* total_responses the number of response positions, at least 1.           *)
(***************************************************************************)
C4_TendencyIsTheQuotient ==
    Profiled =>
        FracEq(Frac(profile.behavior.multi_message_tendency, 100),
               MinOne(Frac(Cardinality(LongRuns(messages)),
                           Max(1, Cardinality(Responses(messages))))))

(***************************************************************************)
(* C4, amended.  The reported multi_message_tendency is that clamped       *)
(* quotient rounded to two decimals; it lies in [0, 1], and the divisor is *)
(* never zero.                                                             *)
(***************************************************************************)
C4_TendencyIsTheRoundedQuotient ==
    /\ Scanned => total_responses >= 1
    /\ Profiled =>
          /\ profile.behavior.multi_message_tendency =
                Round(MinOne(Frac(Cardinality(LongRuns(messages)),
                                  Max(1, Cardinality(Responses(messages))))), 2)
          /\ profile.behavior.multi_message_tendency \in 0..100

\* a corpus that starts with a subject burst and has more bursts than
\* responses: the quotient 2/1 was clamped
C4_Witness ==
    /\ Profiled
    /\ messages[1].is_from_me /\ messages[2].is_from_me
    /\ Cardinality(LongRuns(messages)) > Cardinality(Responses(messages))
    /\ Cardinality(Responses(messages)) >= 1
    /\ profile.behavior.multi_message_tendency = 100
(***************************************************************************)
(* C5.  The response-time samples are the deltas, in minutes, of the       *)
(* adjacent pairs (other-party message, then subject message) with         *)
(* 0 < delta < 1440, one sample per such pair and no other: a delta of 0,  *)
(* a negative delta, 1440 or 1500 is never a sample, and no other kind of  *)
(* pair gives one.                                                         *)
(***************************************************************************)
\* the seconds from message j - 1 to message j
DeltaSeconds(msgs, j) == msgs[j].date.t - msgs[j - 1].date.t

\* the response pairs both of whose dates parse
WellFormedPairs(msgs) ==
    {j \in Responses(msgs) : msgs[j].date.valid /\ msgs[j - 1].date.valid}

\* those whose delta is inside the window
WindowPairs(msgs) ==
    {j \in WellFormedPairs(msgs) :
        0 < DeltaSeconds(msgs, j) /\ DeltaSeconds(msgs, j) < 1440 * 60}


C5_SamplesAreTheWindowPairs ==
    Timed =>
        LET at == Ascending(WindowPairs(messages))
        IN  /\ Len(response_times) = Len(at)
            /\ \A k \in 1..Len(at) :
                  FracEq(response_times[k], Frac(DeltaSeconds(messages, at[k]), 60))
            /\ \A k \in 1..Len(response_times) :
                  /\ ~FracEq(response_times[k], Frac(0, 1))
                  /\ ~FracLess(response_times[k], Frac(0, 1))
                  /\ ~FracEq(response_times[k], Frac(1440, 1))
                  /\ ~FracEq(response_times[k], Frac(1500, 1))

\* a reply after 1439 minutes and 59 seconds is a sample, and in the same
\* corpus the replies of the ending are samples too
C5_Witness ==
    /\ Timed
    /\ \E j \in Responses(messages) :
          /\ j \in WellFormedPairs(messages)
          /\ DeltaSeconds(messages, j) = 1440 * 60 - 1
    /\ Len(response_times) >= 20

\* a reply after exactly 1500 minutes was left out
C5_WitnessExcluded ==
    /\ Timed
    /\ \E j \in WellFormedPairs(messages) : DeltaSeconds(messages, j) = 1500 * 60
    /\ Len(response_times) < Cardinality(Responses(messages))

(***************************************************************************)
(* C6.  A date that does not parse never aborts analyze_style: it costs    *)
(* the one response pair or the one hour sample that needed it, every      *)
(* well-formed sample still counts, and a corpus with at least 20 subject  *)
(* messages still gets its profile.  (The subject messages are those with  *)
(* a text, which the data model says every message has.)                   *)
(***************************************************************************)
\* the subject messages whose date parses
Dated(msgs) == {k \in Subject(msgs) : msgs[k].date.valid}

HourOf(t) == (t \div 3600) % 24

C6_BadDatesCostOnlyTheirSample ==
    /\ pc = "done" => profile # Raised
    /\ (pc = "done" /\ Cardinality(Subject(messages)) >= 20) =>
          /\ profile.kind = "profile"
          /\ Len(response_times) = Cardinality(WindowPairs(messages))
          /\ LET at == Ascending(Dated(messages))
             IN  hours = [k \in 1..Len(at) |-> HourOf(messages[at[k]].date.t)]

\* a corpus with an unparseable date in a response pair and on a subject
\* message: the profile came back and the other samples are all there
C6_Witness ==
    /\ Profiled
    /\ \E j \in Responses(messages) : ~messages[j].date.valid
    /\ \E j \in Responses(messages) : ~messages[j - 1].date.valid
    /\ Len(response_times) >= 19
    /\ Len(hours) >= 19
\* x is halfway between two multiples of 10^-digits without being a float
InexactTie(x, digits) ==
    /\ 2 * ((x.num * Pow10(digits)) % x.den) = x.den
    /\ \A e \in 0..10 : \A m \in 0..(x.num * Pow10(digits)) : m * x.den # x.num * (2 ^ e)

\* the quotients the profile rounds are where Round is Python's round
RoundIsPythons ==
    pc = "assemble" =>
        /\ ~InexactTie(MinOne(MultiMsgTendency(consecutive_bursts, total_responses)), 2)
        /\ ~InexactTie(vocabulary_richness, 3)
        /\ ~InexactTie(AvgBurst(burst_lengths), 1)
        /\ ~InexactTie(EmojiFreq(all_emojis, Len(Texts(messages))), 3)
        /\ ~InexactTie(MessagesPerDay(Len(MyMessages(messages)), Len(messages)), 1)
        /\ ~InexactTie(Sentiment(Texts(messages)).avg_compound, 3)
        /\ ~InexactTie(Sentiment(Texts(messages)).positivity_ratio, 3)
        /\ ~InexactTie(Sentiment(Texts(messages)).negativity_ratio, 3)
        /\ ~InexactTie(RtMean(response_times), 1)
        /\ ~RtStd(response_times).tie

(***************************************************************************)
(* C7.  Capitalization is decided by the counts of subject messages that   *)
(* start lowercase and that start uppercase: "never" iff more than 80%     *)
(* start lowercase, otherwise "always" iff more than 80% start uppercase,  *)
(* otherwise "mixed"; exactly 80% (16 of 20, 20 of 25) is not more.        *)
(***************************************************************************)
LowerStarts(msgs) == {k \in Subject(msgs) : msgs[k].text[1] \in Range(LowerLetters)}
UpperStarts(msgs) == {k \in Subject(msgs) : msgs[k].text[1] \in Range(UpperLetters)}

C7_CapitalizationThresholds ==
    Profiled =>
        LET lower == Cardinality(LowerStarts(messages))
            upper == Cardinality(UpperStarts(messages))
            total == Cardinality(Subject(messages))
            label == profile.style.capitalization
        IN  /\ label \in {"never", "always", "mixed"}
            /\ label = "never" <=> 100 * lower > 80 * total
            /\ label = "always" <=> (100 * lower <= 80 * total /\ 100 * upper > 80 * total)
            /\ (100 * lower = 80 * total /\ 100 * upper <= 80 * total) => label = "mixed"
            /\ (100 * upper = 80 * total) => label = "mixed"

\* 20 of 25 subject messages start lowercase: "mixed"
C7_Witness ==
    /\ Profiled
    /\ Cardinality(Subject(messages)) = 25
    /\ Cardinality(LowerStarts(messages)) = 20
    /\ profile.style.capitalization = "mixed"

\* 16 of 20 start uppercase: "mixed" again
C7_WitnessUpper ==
    /\ Profiled
    /\ Cardinality(Subject(messages)) = 20
    /\ Cardinality(UpperStarts(messages)) = 16
    /\ profile.style.capitalization = "mixed"

(***************************************************************************)
(* C8.  As claimed: the reported vocabulary_richness is exactly the number *)
(* of distinct tokens over the number of tokens of the subject messages    *)
(* (alphabetic, case-folded), 0 without tokens; when every subject message *)
(* is the same one-word text it is 1 / total_messages.                     *)
(***************************************************************************)
\* a position of a text where no word can go on: a space or a "!"
Delimits(t, i) == t[i] = " " \/ t[i] = "!"

\* the alphabetic words of a text, as <<first, last>>
Words(t) ==
    {w \in (1..Len(t)) \X (1..Len(t)) :
        /\ w[1] <= w[2]
        /\ \A i \in w[1]..w[2] : t[i] \in Range(LowerLetters) \cup Range(UpperLetters)
        /\ (w[1] = 1 \/ Delimits(t, w[1] - 1))
        /\ (w[2] = Len(t) \/ Delimits(t, w[2] + 1))}

\* the word occurrences of the subject messages, and the distinct words
Occurrences(msgs) ==
    UNION {{<<k, w>> : w \in Words(msgs[k].text)} : k \in Subject(msgs)}
DistinctWords(msgs) ==
    {Lower(SubSeq(msgs[o[1]].text, o[2][1], o[2][2])) : o \in Occurrences(msgs)}

\* distinct / total, or 0
TypeTokenRatio(msgs) ==
    IF Occurrences(msgs) = {} THEN Frac(0, 1)
    ELSE Frac(Cardinality(DistinctWords(msgs)), Cardinality(Occurrences(msgs)))

\* every subject message is the same text of one word
SameOneWord(msgs) ==
    \A k \in Subject(msgs) :
        /\ msgs[k].text = msgs[CHOOSE j \in Subject(msgs) : TRUE].text
        /\ Words(msgs[k].text) = {<<1, Len(msgs[k].text)>>}

C8_RichnessIsTheRatio ==
    Profiled =>
        /\ FracEq(Frac(profile.vocabulary.vocabulary_richness, 1000),
                  TypeTokenRatio(messages))
        /\ SameOneWord(messages) =>
              FracEq(Frac(profile.vocabulary.vocabulary_richness, 1000),
                     Frac(1, Cardinality(Subject(messages))))

(***************************************************************************)
(* C8, amended.  The reported vocabulary_richness is that ratio rounded to *)
(* three decimals, 0 without tokens; when every subject message is the     *)
(* same one-word text it is 1 / total_messages rounded to three decimals.  *)
(***************************************************************************)
C8_RichnessIsTheRoundedRatio ==
    Profiled =>
        LET ratio == TypeTokenRatio(messages)
            reported == profile.vocabulary.vocabulary_richness
        IN  /\ reported = Round(ratio, 3)
            /\ ratio.num = 0 => reported = 0
            /\ SameOneWord(messages) =>
                  reported = Round(Frac(1, Cardinality(Subject(messages))), 3)

\* 21 subject messages, all "ok": the profile says 0.048
C8_Witness ==
    /\ Profiled
    /\ SameOneWord(messages)
    /\ Cardinality(Subject(messages)) = 21
    /\ profile.vocabulary.vocabulary_richness = 48

\* no subject message has a word: the profile says 0
C8_WitnessNoTokens ==
    /\ Profiled
    /\ Occurrences(messages) = {}
    /\ profile.vocabulary.vocabulary_richness = 0
(***************************************************************************)
(* C9.  topics.common holds only topics whose keyword score is at least 5  *)
(* (5 qualifies, 4 does not), at most 5 of them, and when more than 5      *)
(* qualify the 5 highest-scoring; it is ordered by descending score, equal *)
(* scores in the declaration order food, gaming, school, sports, music,    *)
(* movies, travel, work.                                                   *)
(***************************************************************************)
DeclarationOrder ==
    <<"food", "gaming", "school", "sports", "music", "movies", "travel", "work">>

\* the positions of a text where the word w starts
OccursAt(text, w) ==
    {i \in 1..(Len(text) - Len(w) + 1) : SubSeq(text, i, i + Len(w) - 1) = w}

\* the keyword score of the k-th declared topic in the subject's texts
Score(msgs, k) ==
    LET text == Lower(Join(<<" ">>, [j \in 1..Len(MyMessages(msgs)) |->
                                        MyMessages(msgs)[j].text]))
        kws == topic_keywords[k].keywords
    IN  Sum([j \in 1..Len(kws) |-> Cardinality(OccursAt(text, kws[j]))])

\* topic i goes before topic j
Before(score, i, j) == score[i] > score[j] \/ (score[i] = score[j] /\ i < j)

C9_CommonTopics ==
    Profiled =>
        LET score == [k \in 1..Len(DeclarationOrder) |-> Score(messages, k)]
            qualifying == {k \in 1..Len(DeclarationOrder) : score[k] >= 5}
            common == profile.topics.common
            place == [n \in 1..Len(common) |-> IndexIn(DeclarationOrder, common[n])]
        IN  /\ \A n \in 1..Len(common) : place[n] \in qualifying
            /\ Len(common) = IF Cardinality(qualifying) > 5 THEN 5
                             ELSE Cardinality(qualifying)
            /\ \A n, m \in 1..Len(common) : n < m => Before(score, place[n], place[m])
            /\ \A k \in qualifying \ Range(place) :
                  \A n \in 1..Len(common) : Before(score, place[n], k)

\* all eight qualify; sports, movies and work score 6 and lead, the other
\* five score 5 and the first two of them in declaration order fill the list
C9_Witness ==
    /\ Profiled
    /\ \A k \in 1..Len(DeclarationOrder) :
          Score(messages, k) = IF k \in {4, 6, 8} THEN 6 ELSE 5
    /\ profile.topics.common = <<"sports", "movies", "work", "food", "gaming">>

\* food scores 4 and is left out, gaming scores 5 and is in
C9_WitnessThreshold ==
    /\ Profiled
    /\ Score(messages, 1) = 4
    /\ Score(messages, 2) = 5
    /\ \A k \in 3..Len(DeclarationOrder) : Score(messages, k) = 0
    /\ profile.topics.common = <<"gaming">>
(***************************************************************************)
(* C10.  analyze_style run twice on the same corpus, with the same         *)
(* stopwords and the same sentiment scorer, returns the same profile both  *)
(* times, every field and the order of every list, whatever the orders in  *)
(* which the two runs iterate the slang, greeting and farewell sets.       *)
(***************************************************************************)
C10_RerunsAgree ==
    (pc = "done" /\ previous.kind = "run") => profile = previous.profile

\* both runs returned a profile, and they iterated each of the three sets
\* in different orders
C10_Witness ==
    /\ Profiled
    /\ previous.kind = "run"
    /\ previous.profile.kind = "profile"
    /\ used_slang # previous.used_slang
    /\ greeting_patterns # previous.greeting_patterns
    /\ farewell_patterns # previous.farewell_patterns
    /\ Len(profile.vocabulary.top_phrases) >= 3
    /\ Len(profile.emoji.top_emojis) = 2
    /\ Len(profile.topics.common) = 2
    /\ Len(profile.time_patterns.most_active_hours) = 2
(***************************************************************************)
(* C2.  When main has gone through the chats there is exactly one stored   *)
(* record per qualifying contact (not a group, at least 50 messages, at    *)
(* least 20 subject messages): the others are skipped without stopping the *)
(* loop, no qualifying contact's record is missing or replaced by another  *)
(* contact's, and there are as many records as qualifying contacts.        *)
(***************************************************************************)
\* the messages of a chat, conversation after conversation
Corpus(chat) ==
    LET convs == chat.conversations
        offset(c) == Sum([d \in 1..(c - 1) |-> Len(convs[d])])
        total == Sum([d \in 1..Len(convs) |-> Len(convs[d])])
    IN  [k \in 1..total |->
            LET c == CHOOSE d \in 1..Len(convs) : offset(d) < k /\ k <= offset(d) + Len(convs[d])
            IN  convs[c][k - offset(c)]]

Qualifying(chats) ==
    {k \in 1..Len(chats) :
        /\ ~chats[k].is_group
        /\ Len(Corpus(chats[k])) >= 50
        /\ Cardinality(Subject(Corpus(chats[k]))) >= 20}

\* the records that name the contact of chat k
RecordsOf(chats, k) ==
    {n \in DOMAIN files :
        LET chat_id == chats[k].chat_id
        IN  \E i \in 1..Len(chat_id) :
              /\ files[n].phone = SubSeq(chat_id, i, Len(chat_id))
              /\ files[n].contact \in {chats[k].display_name, files[n].phone}}

C2_OneRecordPerQualifyingContact ==
    /\ pc = "finished" =>
          /\ chat_index = Len(all_chats) + 1
          /\ \A k \in Qualifying(all_chats) : Cardinality(RecordsOf(all_chats, k)) = 1
          /\ Cardinality(DOMAIN files) = Cardinality(Qualifying(all_chats))
    /\ (pc = "done" /\ all_chats # <<>> /\ chat_index = Len(all_chats))
          => ENABLED (SkipNone \/ Store)

\* two qualifying contacts, both named "Sam": the loop is over, two profiles
\* were counted, and the one file holds the record of the second contact
C2_Witness ==
    /\ pc = "finished"
    /\ Qualifying(all_chats) = {1, 2}
    /\ all_chats[1].display_name = all_chats[2].display_name
    /\ profiles_generated = 2
    /\ Cardinality(DOMAIN files) = 1
    /\ RecordsOf(all_chats, 1) = {}
    /\ Cardinality(RecordsOf(all_chats, 2)) = 1

\* what does hold: the loop goes through every chat and counts a profile for
\* each qualifying contact and for no other; a qualifying contact has its
\* record unless a later one was written under the same file name
LastWriterStays ==
    pc = "finished" =>
        LET name(k) == SafeName(all_chats[k].display_name, LastField(all_chats[k].chat_id))
        IN  /\ chat_index = Len(all_chats) + 1
            /\ profiles_generated = Cardinality(Qualifying(all_chats))
            /\ DOMAIN files = {name(k) : k \in Qualifying(all_chats)}
            /\ \A k \in Qualifying(all_chats) :
                  Cardinality(RecordsOf(all_chats, k)) =
                      IF \E j \in Qualifying(all_chats) : j > k /\ name(j) = name(k)
                      THEN 0 ELSE 1
(***************************************************************************)
(* C11.  As claimed: a bigram is two adjacent words of one subject message *)
(* once the stop words are taken out, counted over all subject messages;   *)
(* every bigram of count 3 or more that is among the 10 most frequent is   *)
(* in vocabulary.top_phrases, and no bigram of a smaller count is.         *)
(***************************************************************************)
\* the alphabetic words of a text that are not stop words, case-folded, in
\* the order of the text
ContentWords(t) ==
    LET word(w) == Lower(SubSeq(t, w[1], w[2]))
        kept == {w \in Words(t) : word(w) \notin stop_words}
        firsts == Ascending({w[1] : w \in kept})
    IN  [k \in 1..Len(firsts) |-> word(CHOOSE w \in kept : w[1] = firsts[k])]

\* the content words of every subject message
Content(msgs) == [k \in Subject(msgs) |-> ContentWords(msgs[k].text)]

\* the places where a bigram stands: <<message, position among its words>>
BigramPlaces(content) ==
    UNION {{<<k, i>> : i \in 1..(Len(content[k]) - 1)} : k \in DOMAIN content}

BigramAt(content, place) ==
    content[place[1]][place[2]] \o <<" ">> \o content[place[1]][place[2] + 1]

\* how often each bigram of the corpus stands in it
BigramCounts(content) ==
    LET places == BigramPlaces(content)
    IN  [b \in {BigramAt(content, place) : place \in places} |->
            Cardinality({place \in places : BigramAt(content, place) = b})]

\* at most 10 bigrams are as frequent as b, so b is among the 10 most
\* frequent however ties are broken
AmongTheTen(count, b) ==
    Cardinality({c \in DOMAIN count : count[c] >= count[b]}) <= 10

C11_FrequentBigramsAreReported ==
    Profiled =>
        LET count == BigramCounts(Content(messages))
        IN  \A b \in DOMAIN count :
                /\ (count[b] >= 3 /\ AmongTheTen(count, b))
                      => b \in Range(profile.vocabulary.top_phrases)
                /\ count[b] < 3 => b \notin Range(profile.vocabulary.top_phrases)

\* three messages "win the song film trip job eat pc": six bigrams of count
\* 3, of which the profile has five
C11_Witness ==
    /\ Profiled
    /\ LET count == BigramCounts(Content(messages))
       IN  /\ Cardinality({b \in DOMAIN count : count[b] >= 3}) = 6
           /\ Cardinality(Range(profile.vocabulary.top_phrases) \cap DOMAIN count) = 5

\* what the code does hold to: the profile has five of the bigrams of count
\* 3 or more, or all of them, and none that is less frequent than one it
\* leaves out
C11_FiveBigramsAreReported ==
    Profiled =>
        LET count == BigramCounts(Content(messages))
            reported == Range(profile.vocabulary.top_phrases) \cap DOMAIN count
            frequent == {b \in DOMAIN count : count[b] >= 3}
        IN  /\ reported \subseteq frequent
            /\ Cardinality(reported) = IF Cardinality(frequent) < 5
                                       THEN Cardinality(frequent) ELSE 5
            /\ \A b \in reported, c \in frequent \ reported : count[b] >= count[c]

(***************************************************************************)
(* C12.  A corpus with at least 20 subject messages gets its profile, no   *)
(* division by zero on the way, whatever its timing: without a response    *)
(* sample response_time_mean_minutes is 5.0, with fewer than two           *)
(* response_time_std_minutes is 3.0 and otherwise it is the population     *)
(* standard deviation of the samples, and without a burst of more than one *)
(* message avg_messages_per_burst is 1.0.                                  *)
(***************************************************************************)
\* the deltas, in seconds, of the response pairs inside the window
Deltas(msgs) ==
    LET at == Ascending(WindowPairs(msgs))
    IN  [k \in 1..Len(at) |-> DeltaSeconds(msgs, at[k])]

\* r tenths of a minute is the nearest to the population standard deviation
\* of the deltas d: (r - 1/2) / 10 <= sqrt(sum((d[k] - mean)^2) / n) / 60 <
\* (r + 1/2) / 10, squared and multiplied out
IsDeviation(d, r) ==
    LET n == Len(d)
        spread == Sum([k \in 1..n |-> (n * d[k] - Sum(d)) * (n * d[k] - Sum(d))])
    IN  /\ r = 0 \/ n * n * n * (6 * r - 3) * (6 * r - 3) <= spread
        /\ spread < n * n * n * (6 * r + 3) * (6 * r + 3)

\* deltas whose squares stay below 2^31
Brief(d) == \A k \in 1..Len(d) : d[k] <= 180

C12_DegenerateTimingFallsBack ==
    /\ (pc = "done" /\ Cardinality(Subject(messages)) >= 20) => profile.kind = "profile"
    /\ Scanned => total_responses >= 1
    /\ Profiled =>
          LET d == Deltas(messages)
              behavior == profile.behavior
          IN  /\ d = <<>> => behavior.response_time_mean_minutes = 50
              /\ d # <<>> => behavior.response_time_mean_minutes =
                                Round(Frac(Sum(d), 60 * Len(d)), 1)
              /\ Len(d) < 2 => behavior.response_time_std_minutes = 30
              /\ Len(d) >= 2 =>
                    behavior.response_time_std_minutes =
                        PopulationStd([k \in 1..Len(d) |-> Frac(d[k], 60)]).tenths
              /\ (Len(d) >= 2 /\ Brief(d)) =>
                    IsDeviation(d, behavior.response_time_std_minutes)
              /\ LongRuns(messages) = {} => behavior.avg_messages_per_burst = 10

\* twenty subject messages in a row after a reply that came a day late: no
\* sample, and the profile has 5.0 and 3.0
C12_Witness ==
    /\ Profiled
    /\ Responses(messages) # {}
    /\ Deltas(messages) = <<>>
    /\ profile.behavior.response_time_mean_minutes = 50
    /\ profile.behavior.response_time_std_minutes = 30

\* one sample of three minutes: the mean is 3.0 and the deviation 3.0
C12_WitnessOneSample ==
    /\ Profiled
    /\ Deltas(messages) = <<180>>
    /\ profile.behavior.response_time_mean_minutes = 30
    /\ profile.behavior.response_time_std_minutes = 30

\* no two subject messages in a row: 1.0 messages per burst
C12_WitnessNoBurst ==
    /\ Profiled
    /\ LongRuns(messages) = {}
    /\ profile.behavior.avg_messages_per_burst = 10

\* twenty samples of one minute and one of three: 0.4
C12_WitnessDeviation ==
    /\ Profiled
    /\ Len(Deltas(messages)) = 21
    /\ Brief(Deltas(messages))
    /\ profile.behavior.response_time_std_minutes = 4

(***************************************************************************)
(* C13.  As claimed: emoji.frequency is the number of emoji characters in  *)
(* the subject messages over the number of subject messages (to the three  *)
(* decimals the profile keeps), adjacent emoji counting one each: twenty   *)
(* messages of two adjacent emoji give 2.0.                                *)
(***************************************************************************)
\* the places of the emoji of the subject messages: <<message, position>>
EmojiPlaces(msgs) ==
    UNION {{<<k, i>> : i \in {j \in 1..Len(msgs[k].text) : msgs[k].text[j] \in EmojiChars}} :
              k \in Subject(msgs)}

\* those an emoji does not stand right before
EmojiRunStarts(msgs) ==
    {e \in EmojiPlaces(msgs) : <<e[1], e[2] - 1>> \notin EmojiPlaces(msgs)}

\* every subject message is two adjacent emoji
AllPairs(msgs) ==
    \A k \in Subject(msgs) :
        Len(msgs[k].text) = 2 /\ \A i \in 1..2 : msgs[k].text[i] \in EmojiChars

C13_FrequencyCountsEveryEmoji ==
    Profiled =>
        /\ profile.emoji.frequency =
              Round(Frac(Cardinality(EmojiPlaces(messages)),
                         Cardinality(Subject(messages))), 3)
        /\ AllPairs(messages) => profile.emoji.frequency = 2000

\* twenty messages of two adjacent emoji: the profile says 1.0
C13_Witness ==
    /\ Profiled
    /\ AllPairs(messages)
    /\ Cardinality(Subject(messages)) = 20
    /\ profile.emoji.frequency = 1000

\* what the code does hold to: the frequency counts the runs of adjacent
\* emoji, one per run
C13_FrequencyCountsRuns ==
    Profiled =>
        profile.emoji.frequency =
            Round(Frac(Cardinality(EmojiRunStarts(messages)),
                       Cardinality(Subject(messages))), 3)

(***************************************************************************)
(* C14.  embed_text calls the service at most `retries` times for a text   *)
(* and stops at the first call that does not raise, returning its          *)
(* embedding, or None when the response has no embeddings; it sleeps       *)
(* 2^attempt seconds (1, then 2) after a failed attempt that is not the    *)
(* last, and only then; after the last failed attempt it returns None.  No *)
(* exception of the service leaves it, so main's loop calls it for every   *)
(* chunk and comes to its end.                                             *)
(***************************************************************************)
\* what embed_text did for chunk c, in order, and its calls of the service
Made(c) == SelectSeq(service, LAMBDA e : e.by = "embed_text" /\ e.chunk = c)
Calls(c) == SelectSeq(Made(c), LAMBDA e : e.call = "embed_content")

\* the calls for a chunk are attempts 0, 1, ..., at most `retries` of them,
\* and all but the last of them raised
CallsStopAtSuccess(c) ==
    /\ Len(Calls(c)) <= retries
    /\ \A k \in 1..Len(Calls(c)) : Calls(c)[k].attempt = k - 1
    /\ \A k \in 1..(Len(Calls(c)) - 1) : Calls(c)[k].arg = "raises"

\* a sleep comes right after a failed attempt that is not the last, for
\* 2^attempt seconds, and such an attempt is followed by nothing else
SleepsBetweenAttempts(c) ==
    \A p \in 1..Len(Made(c)) :
        /\ Made(c)[p].call = "sleep" =>
              /\ p > 1
              /\ Made(c)[p - 1].call = "embed_content"
              /\ Made(c)[p - 1].arg = "raises"
              /\ Made(c)[p - 1].attempt = Made(c)[p].attempt
              /\ Made(c)[p].attempt < retries - 1
              /\ Made(c)[p].arg = Frac(IF Made(c)[p].attempt = 0 THEN 1 ELSE 2, 1)
        /\ (Made(c)[p].call = "embed_content" /\ p < Len(Made(c))) =>
              /\ Made(c)[p].arg = "raises"
              /\ Made(c)[p].attempt < retries - 1
              /\ Made(c)[p + 1].call = "sleep"

\* what embed_text returns follows from its last call
ReturnsByLastCall ==
    pc = "returned" =>
        LET calls == Calls(chunk_index)
            last == calls[Len(calls)]
        IN  /\ calls # <<>>
            /\ last.arg = "raises" => Len(calls) = retries /\ embedding = None
            /\ last.arg = "no_embeddings" => embedding = None
            /\ last.arg \in {"values", "no_values"} => embedding.kind = "list"

\* the chunks main's loop has called embed_text for
Reached == {c \in 0..MaxChunks : Calls(c) # <<>>}

EmbedTextIsContained ==
    /\ pc \in {"embed_loop", "try", "except", "returned", "saved"}
    /\ \A c \in 0..MaxChunks : CallsStopAtSuccess(c) /\ SleepsBetweenAttempts(c)
    /\ ReturnsByLastCall
    /\ (pc = "embed_loop" /\ ~(chunk_index < Len(all_chunks))) =>
          Reached = 0..(Len(all_chunks) - 1)

C14_EmbedTextRetriesAndReturns == []EmbedTextIsContained /\ <>(pc = "saved")

\* the first chunk failed three times, with sleeps of 1 and 2 seconds, and
\* the second was embedded at its first call
C14_Witness ==
    /\ pc = "saved"
    /\ Len(Calls(0)) = retries
    /\ \A k \in 1..retries : Calls(0)[k].arg = "raises"
    /\ Len(Made(0)) = 2 * retries - 1
    /\ Calls(1) # <<>> /\ Calls(1)[1].arg = "values"
    /\ total_embedded = 1
    /\ Len(all_chunks) = 1

(***************************************************************************)
(* C15.  split_into_conversations cuts a time-ordered list of messages     *)
(* into conversations that are not empty and that, put end to end in order *)
(* as extract_style's main does, are the list again; two adjacent messages *)
(* are in the same conversation exactly when the later is at most 60       *)
(* minutes after the earlier; an empty list gives no conversation.         *)
(***************************************************************************)
\* the conversation message k of the list falls into, when the conversations
\* are laid end to end
ConversationOf(convs, k) ==
    CHOOSE c \in 1..Len(convs) :
        /\ Sum([j \in 1..(c - 1) |-> Len(convs[j])]) < k
        /\ k <= Sum([j \in 1..c |-> Len(convs[j])])

C15_ConversationsPartitionTheList ==
    pc = "split_done" =>
        /\ messages = <<>> => conversations = <<>>
        /\ \A c \in 1..Len(conversations) : conversations[c] # <<>>
        /\ AllMsgs([conversations |-> conversations]) = messages
        /\ \A k \in 1..(Len(messages) - 1) :
              (ConversationOf(conversations, k) = ConversationOf(conversations, k + 1))
                  <=> (messages[k + 1].date.t - messages[k].date.t <= 60 * 60)

\* four messages: the second an hour after the first, the third an hour and
\* a second after the second, the fourth at the time of the third
C15_Witness ==
    /\ pc = "split_done"
    /\ Len(messages) = 4
    /\ messages[2].date.t - messages[1].date.t = 3600
    /\ messages[3].date.t - messages[2].date.t = 3601
    /\ messages[4].date.t = messages[3].date.t
    /\ conversations = <<SubSeq(messages, 1, 2), SubSeq(messages, 3, 4)>>

\* no message: no conversation
C15_WitnessEmpty ==
    /\ pc = "split_done"
    /\ messages = <<>>
    /\ conversations = <<>>

====
